---- MODULE Spec2Model ----
(***************************************************************************)
(* Model of the request-scoped generation orchestrator of RAGulate:       *)
(*   Backend/backend_generate_prompt.py  (get_rag, _rag_query,             *)
(*                                        generate_output, backends)       *)
(*   Backend/backend_api.py              (run_async, chat route)           *)
(*                                                                         *)
(* Spec      the coroutines of generate_output running on the persistent   *)
(*           event loop, the worker threads that run rag.query, and the    *)
(*           route deadline that cancels a coroutine.                      *)
(* SpecGetRag  coroutines that await get_rag(provider) and nothing else.   *)
(* SpecChat  the chat route threads against the turn store and the user    *)
(*           store; generate_output is reduced to its read of the history  *)
(*           and to the ways it can end.                                   *)
(* SpecInsert  document insertion beside queries.                          *)
(* SpecOptions  _get_user_options over the stored option documents.        *)
(* SpecHistory, SpecGenerate, SpecParams  the history a query is given.    *)
(* SpecUsage  the completion functions and their usage records.            *)
(* SpecSetOptions, SpecRegister  the setOptions and register routes.       *)
(* SpecGetOptions  getOptions beside _get_user_options.                    *)
(* SpecAccounts  register, login, setOptions and chat against the user     *)
(*           store.                                                        *)
(* SpecDeadline  the deadline of the chat route beside the query timeout.  *)
(* SpecTimed  chat requests with clocks: wait_for's timer and the route's  *)
(*           deadline fire when they are due.                              *)
(* SpecLoop  ensure_loop_started, run_async and the signal handler.        *)
(* SpecLive  _rag_query under a fair event loop.                           *)
(*                                                                         *)
(* One step of a coroutine runs from one suspension point (an await that   *)
(* really suspends) to the next: asyncio runs coroutines of one loop       *)
(* cooperatively, so nothing interleaves in between.                       *)
(***************************************************************************)
EXTENDS Integers, Sequences, FiniteSets, TLC

\* ---------------------------------------------------------------- bounds
NumCalls == 2        \* generate_output coroutines submitted to the loop (Spec)
NumGetRagCalls == 3  \* coroutines awaiting get_rag alone (SpecGetRag)
NumInsertCalls == 2  \* coroutines that query or insert documents (SpecInsert)
NumResolves == 1     \* calls of _get_user_options (SpecOptions)
NumParamCalls == 1   \* generate_output coroutines (SpecParams)
MaxStoredTurns == 3  \* turns the session holds at the start (SpecParams)
MaxTurns == 8        \* turns in the turn store (SpecHistory)
NumReqs == 2         \* chat route requests (SpecChat)
NumLlmCalls == 2     \* calls of the completion functions (SpecUsage)
NumSetReqs == 2      \* setOptions requests (SpecSetOptions)
NumRegs == 2         \* register requests (SpecRegister)
NumGetReqs == 2      \* getOptions requests (SpecGetOptions)
NumDeadlines == 1    \* chat requests that resolve their deadline (SpecDeadline)
NumTimedCalls == 2   \* chat requests whose time is measured (SpecTimed)
NumRunAsync == 2     \* run_async calls (SpecLoop)
NumLiveCalls == 2    \* generate_output calls under fair scheduling (SpecLive)
MaxSignals == 1      \* SIGINT/SIGTERM deliveries (SpecLoop)
MaxTs == 1           \* client-supplied timestamps range over 0..MaxTs (SpecChat)

Calls == 1..NumCalls
GetRagCalls == 1..NumGetRagCalls
InsertCalls == 1..NumInsertCalls
ResolveCalls == 1..NumResolves
ParamCalls == 1..NumParamCalls
Reqs == 1..NumReqs
LlmCalls == 1..NumLlmCalls
SetReqs == 1..NumSetReqs
Regs == 1..NumRegs
GetReqs == 1..NumGetReqs
DeadlineCalls == 1..NumDeadlines
TimedCalls == 1..NumTimedCalls
RunAsyncCalls == 1..NumRunAsync
LiveCalls == 1..NumLiveCalls
UserNames == {"alice", "bob"}
SessionIds == {"s1", "s2"}
Absent == -1         \* a key the request body does not carry
None == 0            \* Python None for handles and lock owners

\* ------------------------------------------------------- program constants
_ALLOWED_LLM_PROVIDERS == {"hf", "openrouter"}
_ALLOWED_QUERY_MODES == {"local", "global", "hybrid", "naive", "mix"}
DEFAULT_TIMEOUT == 180
_HISTORY_LIMIT == 6

\* timeouts the calls are started with (resolved options, all within [5,600])
TimeoutChoices == {DEFAULT_TIMEOUT}

\* Error texts are modelled by the set of substrings of interest they contain.
ConfigMsg == {"OPENROUTER_API_KEY is not set"}
DimMsg == {"shapes", "!=", "dim"}
PartialMsg == {"shapes", "dim"}
EngineMsgs == {DimMsg, PartialMsg, {}}
NoMsg == {"<none>"}

VARIABLES
  OPENROUTER_API_KEY,  \* TRUE iff the environment supplied the credential
  HF_GENERATE_LOCK,    \* _HF_GENERATE_LOCK: None or the call whose thread holds it
  rag_hf,              \* _rag_hf: None or the handle of the hf engine
  rag_or,              \* _rag_or: None or the handle of the openrouter engine
  rag_init_lock,       \* _rag_init_lock: None or the call holding it
  init_waiters,        \* FIFO of calls suspended in _rag_init_lock.acquire()
  rag_query_lock,      \* _rag_query_lock: None or the call holding it
  query_waiters,       \* FIFO of calls suspended in _rag_query_lock.acquire()
  caller,              \* per call: the coroutine that awaits get_rag
  pc,                  \* position of each coroutine
  username,            \* per call: what _find_username_by_session returned
  session_id,          \* per call: the session_id generate_output was given
  options,             \* per call: what _get_user_options returned
  param,               \* per call: the QueryParam rag.query is called with
  raw_entries,         \* per call: the turns generate_output read, if it did
  llm_provider,        \* resolved options["llmProvider"] of each call
  timeout_s,           \* resolved options["timeout"] of each call
  rag,                 \* the handle get_rag returned to each call (None before)
  thread,              \* per call, the worker thread running rag.query: "none",
                       \* "running", "llm" (in the completion function),
                       \* "generate" (in _hf_model.generate), "ok", "raised"
  exc_msg,             \* message of the exception the worker thread ended with
  result,              \* how generate_output ended, per call
  in_query,            \* per call: "no", "active", "returned", "raised" for _rag_query
  ended_by,            \* per call: how the await that ended the call finished
  inits,               \* per provider: number of initializations that completed
  \* ---- SpecChat
  chatlogs,            \* the turn store (collection), in insertion order
  user_collection,     \* the user store: username -> its document
  clock,               \* datetime.now() as a counter
  rpc,                 \* position of each chat route thread
  req,                 \* per request: message, session_id, timestamp, user_name
  rhist,               \* per request: param.conversation_history of its query
  ai_response,         \* per request: what generate_gdpr_response gave the route
  \* ---- the usage store
  token_collection,    \* the usage store: the records inserted so far
  token_store_up,      \* TRUE iff token_collection.insert_one succeeds
  llm,                 \* per completion call: its provider and its position
  llm_result,          \* per completion call: what the function returned
  \* ---- the register route
  registered,          \* per username: the documents register inserted
  reg,                 \* per register or login request: its position, input
                       \* and status
  \* ---- the setOptions route
  so,                  \* per setOptions or getOptions request: its position,
                       \* its input or the options it reports, and its status
  \* ---- the route's deadline and the passing of time
  route_timeout,       \* per call: userName of the request and timeout_s of chat
  age_route,           \* per call: seconds since run_async began to wait for it
  age_query,           \* per call: seconds since _rag_query was called
  age_wait,            \* per call: seconds since wait_for was started
  \* ---- the event loop of backend_api.py
  _loop,               \* the loop the global names (0: None), by its thread
  _loop_thread,        \* the thread the global names (0: None)
  loop_threads,        \* per loop thread started: "started", "running", "dead"
  serving,             \* TRUE once app.run serves requests
  signals,             \* SIGINT/SIGTERM delivered so far
  ra                   \* per run_async call: its position and the loop it used

orchVars == <<OPENROUTER_API_KEY, HF_GENERATE_LOCK, username, session_id,
              options, param, raw_entries, rag_hf, rag_or, rag_init_lock, init_waiters,
              rag_query_lock, query_waiters, caller, pc, llm_provider,
              timeout_s, rag, thread, exc_msg, result, in_query, ended_by, inits>>
chatVars == <<chatlogs, user_collection, clock, rpc, req, rhist, ai_response>>
usageVars == <<token_collection, token_store_up, llm, llm_result>>
regVars == <<registered, reg>>
setVars == <<so>>
timeVars == <<route_timeout, age_route, age_query, age_wait>>
loopVars == <<_loop, _loop_thread, loop_threads, serving, signals, ra>>
auxVars == <<usageVars, regVars, setVars, timeVars, loopVars>>
\* what the steps of a completion function leave alone
usageFrame == <<orchVars, chatVars, regVars, setVars, timeVars, loopVars>>
vars == <<orchVars, chatVars, auxVars>>

\* ----------------------------------------------------------------- texts
\* Every way generate_output can end, as a record of uniform shape.
NoResult == [kind |-> "none", id |-> 0, t |-> 0, msg |-> NoMsg]
\* the text rag.query of call c returns
EngineText(c) == [kind |-> "text", id |-> c, t |-> 0, msg |-> NoMsg]
\* f"[Timeout] The request exceeded the configured timeout of {timeout_s} seconds."
TimeoutText(t) == [kind |-> "timeout_sentinel", id |-> 0, t |-> t, msg |-> NoMsg]
\* "[Error] Query failed due to an embedding dimension mismatch. ..."
DimMismatchText == [kind |-> "dim_mismatch", id |-> 0, t |-> 0, msg |-> NoMsg]
\* f"[Error] Query failed: {msg}"
GenericErrorText(m) == [kind |-> "generic_error", id |-> 0, t |-> 0, msg |-> m]
\* the summary insert_uploaded_files_to_rag returns
Summary == [kind |-> "summary", id |-> 0, t |-> 0, msg |-> NoMsg]
\* an exception that leaves generate_output
Raised(e) == [kind |-> e, id |-> 0, t |-> 0, msg |-> NoMsg]

TextKinds == {"text", "timeout_sentinel", "dim_mismatch", "generic_error"}
IsText(r) == r.kind \in TextKinds

\* ------------------------------------------------------------ stored values
\* A value of a stored document, by its Python type. n carries the number (for
\* a float ten times its value: one decimal digit), s the text of a str. The
\* str whose text is the decimal numeral of n has s = Numeral.
Numeral == "<numeral>"
Missing == [ty |-> "missing", n |-> 0, s |-> ""]
PyNone == [ty |-> "null", n |-> 0, s |-> ""]
PyBool(b) == [ty |-> "bool", n |-> IF b THEN 1 ELSE 0, s |-> ""]
PyInt(k) == [ty |-> "int", n |-> k, s |-> ""]
PyFloat(tenths) == [ty |-> "float", n |-> tenths, s |-> ""]
PyStr(x) == [ty |-> "str", n |-> 0, s |-> x]
PyNumStr(k) == [ty |-> "str", n |-> k, s |-> Numeral]
PyList == [ty |-> "list", n |-> 0, s |-> ""]

\* d.get(key, default) for the stored value v of the key
Get(v, default) == IF v.ty = "missing" THEN default ELSE v

\* division that rounds toward zero, as int() does on a float
TruncDiv(a, b) == IF a >= 0 THEN a \div b ELSE -((-a) \div b)

\* int(v): ok with the integer, or not ok when int() raises (TypeError for
\* None and lists, ValueError for a str that is no numeral)
int(v) ==
  CASE v.ty \in {"int", "bool"} -> [ok |-> TRUE, n |-> v.n]
    [] v.ty = "float" -> [ok |-> TRUE, n |-> TruncDiv(v.n, 10)]
    [] v.ty = "str" /\ v.s = Numeral -> [ok |-> TRUE, n |-> v.n]
    [] OTHER -> [ok |-> FALSE, n |-> 0]

\* str.strip() on the texts the model uses
strip(x) == CASE x = " be brief " -> "be brief"
              [] x = "  " -> ""
              [] OTHER -> x

min(a, b) == IF a <= b THEN a ELSE b
max(a, b) == IF a >= b THEN a ELSE b

\* the options field of a user document: absent, null, a mapping (dict) with
\* its five keys, or a value of another type
Options(ch, t, cp, qm, prov) ==
  [ty |-> "dict", chatHistory |-> ch, timeout |-> t, customPrompt |-> cp,
   queryMode |-> qm, llmProvider |-> prov]
NonDictOptions(ty) ==
  [ty |-> ty, chatHistory |-> Missing, timeout |-> Missing,
   customPrompt |-> Missing, queryMode |-> Missing, llmProvider |-> Missing]
NoOptions == NonDictOptions("missing")

\* a document of usermanagement, as far as the orchestrator and the chat route
\* use it; NoUser stands for no document with the username
NoUser == [present |-> FALSE, session_list |-> {}, options |-> NoOptions]
UserDoc(sessions, opts) ==
  [present |-> TRUE, session_list |-> sessions, options |-> opts]

\* ------------------------------------------------------------ user options
\* username None (or ""): no user
NoUsername == ""
\* no session: the call is none of generate_output
NoSession == ""

\* _find_username_by_session (lines 292-303): find_one returns the first
\* document that lists the session, in the store's natural order; the
\* usernames it can return, None when no document lists the session
_find_username_by_session(users, sid) ==
  LET owners == {u \in DOMAIN users : users[u].present /\ sid \in users[u].session_list}
  IN IF owners = {} THEN {NoUsername} ELSE owners

\* defaults that select the remote provider and a short timeout
DEFAULT_OPTIONS_Remote ==
  [raised |-> "none", chatHistory |-> PyBool(TRUE), timeout |-> PyInt(30),
   customPrompt |-> PyStr(""), queryMode |-> PyStr("naive"),
   llmProvider |-> PyStr("openrouter")]

\* DEFAULT_OPTIONS (lines 36-42), as the record _get_user_options returns;
\* raised names the exception when the function raises instead
DEFAULT_OPTIONS ==
  [raised |-> "none", chatHistory |-> PyBool(TRUE), timeout |-> PyInt(DEFAULT_TIMEOUT),
   customPrompt |-> PyStr(""), queryMode |-> PyStr("naive"),
   llmProvider |-> PyStr("hf")]

\* max(5, min(t, 600)) without its upper bound
ClampTimeout_NoUpper(t) == max(5, t)

\* max(5, min(t, 600)) (line 326)
ClampTimeout(t) == max(5, min(t, 600))

\* a stored queryMode that any str passes
ValidQueryMode_AnyStr(v) == v.ty = "str"

\* isinstance(qm, str) and qm in _ALLOWED_QUERY_MODES (line 334)
ValidQueryMode(v) == v.ty = "str" /\ v.s \in _ALLOWED_QUERY_MODES

\* isinstance(prov, str) and prov in _ALLOWED_LLM_PROVIDERS (line 337)
ValidProvider(v) == v.ty = "str" /\ v.s \in _ALLOWED_LLM_PROVIDERS

\* _get_user_options (lines 305-338)
_get_user_options(users, uname) ==
  IF uname = NoUsername
  THEN DEFAULT_OPTIONS
  ELSE LET opts == users[uname].options
           ch == Get(opts.chatHistory, PyNone)
           t == int(Get(opts.timeout, DEFAULT_OPTIONS.timeout))
           cp == Get(opts.customPrompt, PyNone)
           qm == Get(opts.queryMode, PyNone)
           prov == Get(opts.llmProvider, PyNone)
       IN IF opts.ty \notin {"missing", "dict"}
          THEN \* opts.get on None, a str, a list: AttributeError (line 321)
               [DEFAULT_OPTIONS EXCEPT !.raised = "AttributeError"]
          ELSE [raised |-> "none",
                chatHistory |-> IF ch.ty = "bool" THEN ch
                                ELSE DEFAULT_OPTIONS.chatHistory,
                timeout |-> IF t.ok THEN PyInt(ClampTimeout(t.n))
                            ELSE DEFAULT_OPTIONS.timeout,
                customPrompt |-> IF cp.ty = "str" THEN cp
                                 ELSE DEFAULT_OPTIONS.customPrompt,
                queryMode |-> IF ValidQueryMode(qm) THEN qm
                              ELSE DEFAULT_OPTIONS.queryMode,
                llmProvider |-> IF ValidProvider(prov) THEN prov
                                ELSE DEFAULT_OPTIONS.llmProvider]

\* ------------------------------------------------------- the turn store
\* the content of the user turn of request r: its message
Message(r) == [kind |-> "message", id |-> r, t |-> 0, msg |-> NoMsg]

\* a document of chatlogs (backend_api.py lines 272-278, 286-292)
Turn(role, content, ts, sid, user) ==
  [role |-> role, content |-> content, timestamp |-> ts, session_id |-> sid,
   user_name |-> user]

\* sort("timestamp", 1) over the documents with indices I of log; documents
\* with equal timestamps keep their insertion order
RECURSIVE SortByTimestamp(_, _)
SortByTimestamp(log, I) ==
  IF I = {}
  THEN <<>>
  ELSE LET m == CHOOSE i \in I : \A j \in I :
                  \/ log[i].timestamp < log[j].timestamp
                  \/ log[i].timestamp = log[j].timestamp /\ i <= j
       IN <<log[m]>> \o SortByTimestamp(log, I \ {m})

\* get_last_conversations (backend_generate_prompt.py lines 340-351)
get_last_conversations(log, sid) ==
  SortByTimestamp(log, {i \in 1..Len(log) : log[i].session_id = sid})

\* format_conversation that keeps the first _HISTORY_LIMIT entries
format_conversation_Oldest(entries) ==
  LET n == IF Len(entries) = 0 THEN 0 ELSE Len(entries) - 1
      conv_history == [i \in 1..n |->
                         [role |-> entries[i].role, content |-> entries[i].content]]
  IN IF n <= _HISTORY_LIMIT
     THEN conv_history
     ELSE SubSeq(conv_history, 1, _HISTORY_LIMIT)

\* format_conversation (lines 353-360): entries[:-1] as {role, content}, then
\* the last _HISTORY_LIMIT of them
format_conversation(entries) ==
  LET n == IF Len(entries) = 0 THEN 0 ELSE Len(entries) - 1
      conv_history == [i \in 1..n |->
                         [role |-> entries[i].role, content |-> entries[i].content]]
  IN IF n <= _HISTORY_LIMIT
     THEN conv_history
     ELSE SubSeq(conv_history, n - _HISTORY_LIMIT + 1, n)

\* the turns generate_output has not read
NotRead == [read |-> FALSE, entries |-> <<>>]

\* raw_entries (lines 436-437): the turns of the session are read only when
\* chat_history_enabled
RawEntries(log, sid, chat_history_enabled) ==
  IF chat_history_enabled
  THEN [read |-> TRUE, entries |-> get_last_conversations(log, sid)]
  ELSE NotRead

\* generate_output that attaches the history whatever chatHistory says
ConversationHistory_Always(log, sid, chat_history_enabled) ==
  format_conversation(get_last_conversations(log, sid))

\* the conversation history generate_output attaches to the query parameters
\* (lines 436-443); none when chatHistory is off or the window is empty
ConversationHistory(log, sid, chat_history_enabled) ==
  IF chat_history_enabled
  THEN format_conversation(get_last_conversations(log, sid))
  ELSE <<>>

\* _build_queryparam (lines 362-370) and the history generate_output attaches
\* (lines 434-443): the parameters rag.query is called with. user_prompt and
\* conversation_history are "" and <<>> when they are not set.
NoParam == [mode |-> "", user_prompt |-> "", conversation_history |-> <<>>]
_build_queryparam(custom_prompt, query_mode) ==
  [mode |-> IF query_mode.s \in _ALLOWED_QUERY_MODES THEN query_mode.s ELSE "naive",
   user_prompt |-> IF custom_prompt.ty = "str" THEN strip(custom_prompt.s) ELSE "",
   conversation_history |-> <<>>]
QueryParam(o, log, sid) ==
  [_build_queryparam(o.customPrompt, o.queryMode) EXCEPT
     !.conversation_history =
        ConversationHistory(log, sid, o.chatHistory = PyBool(TRUE))]

\* ------------------------------------------------------------ asyncio.Lock
\* Lock.acquire() returns at once only when the lock is free and nobody waits.
LockAvailable(lock, waiters) == lock = None /\ waiters = <<>>

Remove(s, c) == SelectSeq(s, LAMBDA x : x # c)

\* ------------------------------------------------------------------ get_rag
\* the module global get_rag reads for provider p
RagOf(p) == IF p = "openrouter" THEN rag_or ELSE rag_hf

\* get_rag without its lock: every caller goes straight to the check
InitLockAvailable_Unlocked == TRUE

\* _rag_init_lock can be taken without suspending (line 283)
InitLockAvailable == LockAvailable(rag_init_lock, init_waiters)

\* _rag_query without `async with _rag_query_lock`: entering never suspends
QueryLockAvailable_Unlocked == TRUE

\* _rag_query_lock can be taken without suspending (line 391)
QueryLockAvailable == LockAvailable(rag_query_lock, query_waiters)

\* ---------------------------------------------------------------- _rag_query
\* _rag_query from its entry to its first suspension (lines 388-392): take the
\* query lock and hand rag.query to a worker thread, or queue for the lock.
RagQueryEnter(c) ==
  /\ in_query' = [in_query EXCEPT ![c] = "active"]
  /\ IF QueryLockAvailable
     THEN /\ rag_query_lock' = c
          /\ thread' = [thread EXCEPT ![c] = "running"]
          /\ pc' = [pc EXCEPT ![c] = "querying"]
          /\ UNCHANGED query_waiters
     ELSE /\ query_waiters' = Append(query_waiters, c)
          /\ pc' = [pc EXCEPT ![c] = "query_wait"]
          /\ UNCHANGED <<rag_query_lock, thread>>

\* _rag_query that hands out the engine's text after the timeout as well
RagQueryReturn_LateResult(how, c, t, m) ==
  CASE how = "result" -> EngineText(c)
    [] how = "TimeoutError" -> EngineText(c)
    [] OTHER -> IF {"shapes", "!=", "dim"} \subseteq m
                THEN DimMismatchText
                ELSE GenericErrorText(m)

\* _rag_query that lets an unclassified engine exception through
RagQueryReturn_Reraise(how, c, t, m) ==
  CASE how = "result" -> EngineText(c)
    [] how = "TimeoutError" -> TimeoutText(t)
    [] OTHER -> IF {"shapes", "!=", "dim"} \subseteq m
                THEN DimMismatchText
                ELSE Raised("Exception")

\* _rag_query that takes "shapes" and "dim" for the signature, without "!="
RagQueryReturn_TwoKeywords(how, c, t, m) ==
  CASE how = "result" -> EngineText(c)
    [] how = "TimeoutError" -> TimeoutText(t)
    [] OTHER -> IF {"shapes", "dim"} \subseteq m
                THEN DimMismatchText
                ELSE GenericErrorText(m)

\* what _rag_query returns, by the way wait_for ended (lines 392-406)
RagQueryReturn(how, c, t, m) ==
  CASE how = "result" -> EngineText(c)
    [] how = "TimeoutError" -> TimeoutText(t)
    [] OTHER -> IF {"shapes", "!=", "dim"} \subseteq m
                THEN DimMismatchText
                ELSE GenericErrorText(m)

\* ----------------------------------------------------------- generate_output
\* generate_output after get_rag returned handle h (lines 433-445): no await
\* lies between the return of get_rag and the first await of _rag_query.
AfterGetRag(c, h) ==
  /\ rag' = [rag EXCEPT ![c] = h]
  /\ CASE caller[c] = "generate_output" ->
            \* lines 434-445: the parameters are built, the history is read
            /\ param' = [param EXCEPT ![c] =
                           QueryParam(options'[c], chatlogs, session_id'[c])]
            /\ raw_entries' = [raw_entries EXCEPT ![c] =
                 RawEntries(chatlogs, session_id'[c],
                            options'[c].chatHistory = PyBool(TRUE))]
            /\ RagQueryEnter(c)
       [] caller[c] = "insert_uploaded_files_to_rag" ->
            \* backend_documents.py lines 29-64: the text of the file is
            \* extracted and rag.ainsert awaited
            /\ pc' = [pc EXCEPT ![c] = "inserting"]
            /\ UNCHANGED <<param, raw_entries, in_query, rag_query_lock, query_waiters, thread>>
       [] OTHER ->
            /\ pc' = [pc EXCEPT ![c] = "got_rag"]
            /\ UNCHANGED <<param, raw_entries, in_query, rag_query_lock, query_waiters, thread>>

\* get_rag inside `async with _rag_init_lock` for provider p (lines 284-290)
GetRagLocked(c, p) ==
  IF RagOf(p) = None
  THEN /\ rag_init_lock' = c
       /\ pc' = [pc EXCEPT ![c] = "init"]
       /\ UNCHANGED <<param, raw_entries, rag, in_query, rag_query_lock, query_waiters, thread>>
  ELSE /\ rag_init_lock' = None
       /\ AfterGetRag(c, RagOf(p))

\* get_rag(p) from its entry to its first suspension (lines 281-290): take
\* the init lock, or queue for it
GetRagEnter(c, p) ==
  IF InitLockAvailable
  THEN /\ GetRagLocked(c, p)
       /\ UNCHANGED init_waiters
  ELSE /\ init_waiters' = Append(init_waiters, c)
       /\ pc' = [pc EXCEPT ![c] = "init_wait"]
       /\ UNCHANGED <<param, raw_entries, rag_init_lock, rag, in_query, rag_query_lock,
                      query_waiters, thread>>

\* generate_output once the options are resolved to o for username u (lines
\* 427-433, 283): it awaits get_rag and runs to its first suspension
GenerateOutputResolved(c, u, sid, o) ==
  /\ username' = [username EXCEPT ![c] = u]
  /\ session_id' = [session_id EXCEPT ![c] = sid]
  /\ options' = [options EXCEPT ![c] = o]
  /\ llm_provider' = [llm_provider EXCEPT ![c] = o.llmProvider.s]
  /\ timeout_s' = [timeout_s EXCEPT ![c] = o.timeout.n]
  /\ GetRagEnter(c, o.llmProvider.s)
  /\ UNCHANGED <<OPENROUTER_API_KEY, HF_GENERATE_LOCK, caller, rag_hf, rag_or,
                 exc_msg, result, ended_by, inits, chatVars, auxVars>>

\* generate_output is started on the loop for a session whose options resolve
\* to provider p and timeout t, the other options being the defaults
GenerateOutput(c, p, t) ==
  /\ pc[c] = "idle"
  /\ caller[c] = "generate_output"
  /\ GenerateOutputResolved(c, NoUsername, NoSession,
        [DEFAULT_OPTIONS EXCEPT !.llmProvider = PyStr(p), !.timeout = PyInt(t)])

\* _get_user_options raised (line 425): the exception leaves generate_output
OptionsRaise(c, u, sid, o) ==
  /\ username' = [username EXCEPT ![c] = u]
  /\ session_id' = [session_id EXCEPT ![c] = sid]
  /\ options' = [options EXCEPT ![c] = o]
  /\ pc' = [pc EXCEPT ![c] = "ended"]
  /\ ended_by' = [ended_by EXCEPT ![c] = o.raised]
  /\ result' = [result EXCEPT ![c] = Raised(o.raised)]
  /\ UNCHANGED <<OPENROUTER_API_KEY, HF_GENERATE_LOCK, param, raw_entries, caller, rag_hf,
                 rag_or, rag_init_lock, init_waiters, rag_query_lock,
                 query_waiters, llm_provider, timeout_s, rag, thread, exc_msg,
                 in_query, inits, chatVars, auxVars>>

\* generate_output(user_input, session_id) is started on the loop (lines
\* 424-433): the owner of the session is looked up, its options are resolved,
\* get_rag is awaited
generate_output(c, sid) ==
  /\ pc[c] = "idle"
  /\ caller[c] = "generate_output"
  /\ \E u \in _find_username_by_session(user_collection, sid) :
       LET o == _get_user_options(user_collection, u)
       IN IF o.raised # "none"
          THEN OptionsRaise(c, u, sid, o)
          ELSE GenerateOutputResolved(c, u, sid, o)

\* a coroutine awaits get_rag(p) and keeps the handle it gets, as
\* insert_uploaded_files_to_rag does (backend_documents.py line 27)
AwaitGetRag(c, p) ==
  /\ pc[c] = "idle"
  /\ caller[c] = "get_rag"
  /\ llm_provider' = [llm_provider EXCEPT ![c] = p]
  /\ UNCHANGED <<username, session_id, options>>
  /\ GetRagEnter(c, p)
  /\ UNCHANGED <<OPENROUTER_API_KEY, HF_GENERATE_LOCK, caller, rag_hf, rag_or,
                 timeout_s, exc_msg, result, ended_by, inits, chatVars, auxVars>>

\* insert_uploaded_files_to_rag is started on the loop with one readable file
\* (backend_documents.py lines 21-64): it awaits get_rag() for the default
\* provider and then rag.ainsert
insert_uploaded_files_to_rag(c) ==
  /\ pc[c] = "idle"
  /\ caller[c] = "insert_uploaded_files_to_rag"
  /\ llm_provider' = [llm_provider EXCEPT ![c] = "hf"]
  /\ UNCHANGED <<username, session_id, options>>
  /\ GetRagEnter(c, "hf")
  /\ UNCHANGED <<OPENROUTER_API_KEY, HF_GENERATE_LOCK, caller, rag_hf, rag_or,
                 timeout_s, exc_msg, result, ended_by, inits, chatVars, auxVars>>

\* rag.ainsert returns or raises; the exception is caught and recorded in the
\* summary the function returns (backend_documents.py lines 63-78)
InsertEnds(c) ==
  /\ pc[c] = "inserting"
  /\ pc' = [pc EXCEPT ![c] = "ended"]
  /\ ended_by' = [ended_by EXCEPT ![c] = "result"]
  /\ result' = [result EXCEPT ![c] = Summary]
  /\ UNCHANGED <<OPENROUTER_API_KEY, HF_GENERATE_LOCK, username, session_id,
                 options, param, raw_entries, caller, rag_hf, rag_or, rag_init_lock,
                 init_waiters, rag_query_lock, query_waiters, llm_provider,
                 timeout_s, rag, thread, exc_msg, in_query, inits, chatVars, auxVars>>

\* a call queued for _rag_init_lock is woken with the lock (line 283)
InitLockGranted(c) ==
  /\ pc[c] = "init_wait"
  /\ rag_init_lock = None
  /\ init_waiters # <<>>
  /\ Head(init_waiters) = c
  /\ init_waiters' = Tail(init_waiters)
  /\ UNCHANGED <<username, session_id, options>>
  /\ GetRagLocked(c, llm_provider[c])
  /\ UNCHANGED <<OPENROUTER_API_KEY, HF_GENERATE_LOCK, caller, rag_hf, rag_or,
                 llm_provider, timeout_s, exc_msg, result, ended_by, inits,
                 chatVars, auxVars>>

\* initialize_rag_* returns: the global is assigned, the lock released, the
\* handle returned (lines 285-290), and generate_output goes on
InitReturns(c) ==
  /\ pc[c] = "init"
  /\ UNCHANGED <<username, session_id, options>>
  /\ LET p == llm_provider[c]
         h == inits[p] + 1
     IN /\ inits' = [inits EXCEPT ![p] = h]
        /\ IF p = "openrouter"
           THEN rag_or' = h /\ UNCHANGED rag_hf
           ELSE rag_hf' = h /\ UNCHANGED rag_or
        /\ rag_init_lock' = None
        /\ AfterGetRag(c, h)
  /\ UNCHANGED <<OPENROUTER_API_KEY, HF_GENERATE_LOCK, caller, init_waiters,
                 llm_provider, timeout_s, exc_msg, result, ended_by, chatVars, auxVars>>

\* get_rag that takes and releases the lock by hand and skips the release
\* when initialization raises
InitRaises_KeepsLock(c) ==
  /\ pc[c] = "init"
  /\ pc' = [pc EXCEPT ![c] = "ended"]
  /\ ended_by' = [ended_by EXCEPT ![c] = "InitError"]
  /\ result' = [result EXCEPT ![c] = Raised("InitError")]
  /\ UNCHANGED <<OPENROUTER_API_KEY, username, session_id, options, param, raw_entries, HF_GENERATE_LOCK, caller, rag_hf, rag_or, rag_init_lock,
                 init_waiters, rag_query_lock, query_waiters, llm_provider,
                 timeout_s, rag, thread, exc_msg, in_query, inits, chatVars, auxVars>>

\* initialize_rag_* raises: `async with` releases the lock, nothing catches the
\* exception in get_rag (283-290) or in generate_output (433)
InitRaises(c) ==
  /\ pc[c] = "init"
  /\ rag_init_lock' = None
  /\ pc' = [pc EXCEPT ![c] = "ended"]
  /\ ended_by' = [ended_by EXCEPT ![c] = "InitError"]
  /\ result' = [result EXCEPT ![c] = Raised("InitError")]
  /\ UNCHANGED <<OPENROUTER_API_KEY, username, session_id, options, param, raw_entries, HF_GENERATE_LOCK, caller, rag_hf, rag_or, init_waiters,
                 rag_query_lock, query_waiters, llm_provider, timeout_s, rag,
                 thread, exc_msg, in_query, inits, chatVars, auxVars>>

\* a call queued for _rag_query_lock is woken with the lock and dispatches
\* rag.query to a worker thread (lines 391-392)
QueryLockGranted(c) ==
  /\ pc[c] = "query_wait"
  /\ rag_query_lock = None
  /\ query_waiters # <<>>
  /\ Head(query_waiters) = c
  /\ query_waiters' = Tail(query_waiters)
  /\ rag_query_lock' = c
  /\ thread' = [thread EXCEPT ![c] = "running"]
  /\ pc' = [pc EXCEPT ![c] = "querying"]
  /\ UNCHANGED <<OPENROUTER_API_KEY, username, session_id, options, param, raw_entries, HF_GENERATE_LOCK, caller, rag_hf, rag_or, rag_init_lock,
                 init_waiters, llm_provider, timeout_s, rag, exc_msg, result,
                 ended_by, in_query, inits, chatVars, auxVars>>

\* ------------------------------------------------- the worker thread: rag.query
\* llm_model_func_openrouter up to its credential check (lines 218-219):
\* TRUE iff it raises the configuration error
OpenRouterKeyMissing == ~OPENROUTER_API_KEY

\* the completion backend the engine of provider p was built with refuses to
\* run (lines 259, 264, 218-219); llm_model_func_hf needs no credential
CompletionRefuses(p) == p = "openrouter" /\ OpenRouterKeyMissing

\* Inside rag.query the engine calls its completion function (the engine is
\* opaque: it calls llm_model_func when it has retrieved context to answer
\* from). The openrouter backend checks the credential first and raises.
EngineCallsCompletion(c) ==
  /\ thread[c] = "running"
  /\ IF CompletionRefuses(llm_provider[c])
     THEN /\ thread' = [thread EXCEPT ![c] = "raised"]
          /\ exc_msg' = [exc_msg EXCEPT ![c] = ConfigMsg]
     ELSE /\ thread' = [thread EXCEPT ![c] = "llm"]
          /\ UNCHANGED exc_msg
  /\ UNCHANGED <<OPENROUTER_API_KEY, username, session_id, options, param, raw_entries, HF_GENERATE_LOCK, caller, rag_hf, rag_or, rag_init_lock,
                 init_waiters, rag_query_lock, query_waiters, pc, llm_provider,
                 timeout_s, rag, result, in_query, ended_by, inits, chatVars, auxVars>>

\* _hf_generate_once without `with _HF_GENERATE_LOCK`: acquiring never blocks
HfGenerateLockHeld_NoLock == FALSE

\* _HF_GENERATE_LOCK.acquire() would block: another thread holds the lock
\* (threading.Lock, line 120)
HfGenerateLockHeld == HF_GENERATE_LOCK # None

\* _hf_generate_once up to the generate call (lines 112-122): the input is
\* tokenized, the thread takes _HF_GENERATE_LOCK (blocking while another
\* thread holds it) and enters _hf_model.generate
HfGenerateEnter(c) ==
  /\ thread[c] = "llm"
  /\ llm_provider[c] = "hf"
  /\ ~HfGenerateLockHeld
  /\ HF_GENERATE_LOCK' = c
  /\ thread' = [thread EXCEPT ![c] = "generate"]
  /\ UNCHANGED <<OPENROUTER_API_KEY, username, session_id, options, param, raw_entries, caller, rag_hf, rag_or, rag_init_lock,
                 init_waiters, rag_query_lock, query_waiters, pc, llm_provider,
                 timeout_s, rag, exc_msg, result, in_query, ended_by, inits,
                 chatVars, auxVars>>

\* _hf_model.generate returns (lines 122-131, 155-158): `with` releases the
\* lock, the text is decoded and handed back to the engine (the usage record
\* it writes: SpecUsage)
HfGenerateReturns(c) ==
  /\ thread[c] = "generate"
  /\ HF_GENERATE_LOCK' = None
  /\ thread' = [thread EXCEPT ![c] = "running"]
  /\ UNCHANGED <<OPENROUTER_API_KEY, username, session_id, options, param, raw_entries, caller, rag_hf, rag_or, rag_init_lock,
                 init_waiters, rag_query_lock, query_waiters, pc, llm_provider,
                 timeout_s, rag, exc_msg, result, in_query, ended_by, inits,
                 chatVars, auxVars>>

\* the remote completion call returns (lines 232-240) and its text is handed
\* back to the engine (the usage records it writes: SpecUsage)
OpenRouterReturns(c) ==
  /\ thread[c] = "llm"
  /\ llm_provider[c] = "openrouter"
  /\ thread' = [thread EXCEPT ![c] = "running"]
  /\ UNCHANGED <<OPENROUTER_API_KEY, username, session_id, options, param, raw_entries, HF_GENERATE_LOCK, caller, rag_hf, rag_or,
                 rag_init_lock, init_waiters, rag_query_lock, query_waiters, pc,
                 llm_provider, timeout_s, rag, exc_msg, result, in_query,
                 ended_by, inits, chatVars, auxVars>>

\* rag.query returns its text (with or without having called the backend)
EngineReturns(c) ==
  /\ thread[c] = "running"
  /\ thread' = [thread EXCEPT ![c] = "ok"]
  /\ UNCHANGED <<OPENROUTER_API_KEY, username, session_id, options, param, raw_entries, HF_GENERATE_LOCK, caller, rag_hf, rag_or,
                 rag_init_lock, init_waiters, rag_query_lock, query_waiters, pc,
                 llm_provider, timeout_s, rag, exc_msg, result, in_query,
                 ended_by, inits, chatVars, auxVars>>

\* rag.query raises (retrieval or generation error) with message m; an
\* exception inside _hf_model.generate leaves `with _HF_GENERATE_LOCK` and
\* releases the lock (line 120)
EngineRaises(c, m) ==
  /\ thread[c] \in {"running", "llm", "generate"}
  /\ thread' = [thread EXCEPT ![c] = "raised"]
  /\ exc_msg' = [exc_msg EXCEPT ![c] = m]
  /\ HF_GENERATE_LOCK' = IF thread[c] = "generate" THEN None ELSE HF_GENERATE_LOCK
  /\ UNCHANGED <<OPENROUTER_API_KEY, username, session_id, options, param, raw_entries, caller, rag_hf, rag_or, rag_init_lock,
                 init_waiters, rag_query_lock, query_waiters, pc, llm_provider,
                 timeout_s, rag, result, in_query, ended_by, inits, chatVars, auxVars>>

\* ------------------------------------------------ _rag_query: how it ends
\* _rag_query that takes the lock by hand and returns without releasing it
RagQueryEnds_KeepsLock(c, how, r) ==
  /\ rag_query_lock' = rag_query_lock
  /\ pc' = [pc EXCEPT ![c] = "ended"]
  /\ in_query' = [in_query EXCEPT ![c] = "returned"]
  /\ ended_by' = [ended_by EXCEPT ![c] = how]
  /\ result' = [result EXCEPT ![c] = r]

\* _rag_query ends by returning text r (lines 391-406): `async with` has
\* released the lock, and generate_output returns the text as it is (line 445)
RagQueryEnds(c, how, r) ==
  /\ rag_query_lock' = None
  /\ pc' = [pc EXCEPT ![c] = "ended"]
  /\ in_query' = [in_query EXCEPT ![c] = "returned"]
  /\ ended_by' = [ended_by EXCEPT ![c] = how]
  /\ result' = [result EXCEPT ![c] = r]

\* the worker thread finished in time: wait_for hands its result or its
\* exception to _rag_query (lines 392-394, 397-406)
WaitForCompletes(c) ==
  /\ pc[c] = "querying"
  /\ thread[c] \in {"ok", "raised"}
  /\ LET how == IF thread[c] = "ok" THEN "result" ELSE "Exception"
     IN RagQueryEnds(c, how, RagQueryReturn(how, c, timeout_s[c], exc_msg[c]))
  /\ UNCHANGED <<OPENROUTER_API_KEY, username, session_id, options, param, raw_entries, HF_GENERATE_LOCK, caller, rag_hf, rag_or, rag_init_lock,
                 init_waiters, query_waiters, llm_provider, timeout_s, rag,
                 thread, exc_msg, inits, chatVars, auxVars>>

\* timeout_s elapsed before the loop saw the worker's future done: wait_for
\* cancels the future and raises TimeoutError (lines 392, 395-396). A thread
\* cannot be cancelled: it keeps running rag.query.
WaitForTimesOut(c) ==
  /\ pc[c] = "querying"
  /\ RagQueryEnds(c, "TimeoutError",
                  RagQueryReturn("TimeoutError", c, timeout_s[c], exc_msg[c]))
  /\ UNCHANGED <<OPENROUTER_API_KEY, username, session_id, options, param, raw_entries, HF_GENERATE_LOCK, caller, rag_hf, rag_or, rag_init_lock,
                 init_waiters, query_waiters, llm_provider, timeout_s, rag,
                 thread, exc_msg, inits, chatVars, auxVars>>

\* ------------------------------------------------------------- run_async
\* The route's deadline passed: run_async calls fut.cancel() (backend_api.py
\* lines 64-67) and CancelledError is thrown into the coroutine at the await
\* it is suspended in. CancelledError is a BaseException: `except Exception`
\* (line 397) does not catch it, the `async with` blocks release their locks.
Cancel(c) ==
  /\ pc[c] \in {"init_wait", "init", "query_wait", "querying", "inserting"}
  /\ pc' = [pc EXCEPT ![c] = "ended"]
  /\ ended_by' = [ended_by EXCEPT ![c] = "CancelledError"]
  /\ result' = [result EXCEPT ![c] = Raised("CancelledError")]
  /\ init_waiters' = Remove(init_waiters, c)
  /\ query_waiters' = Remove(query_waiters, c)
  /\ rag_init_lock' = IF pc[c] = "init" THEN None ELSE rag_init_lock
  /\ rag_query_lock' = IF pc[c] = "querying" THEN None ELSE rag_query_lock
  /\ in_query' = [in_query EXCEPT ![c] =
                    IF pc[c] \in {"query_wait", "querying"} THEN "raised" ELSE @]
  /\ UNCHANGED <<OPENROUTER_API_KEY, username, session_id, options, param, raw_entries, HF_GENERATE_LOCK, caller, rag_hf, rag_or, llm_provider, timeout_s,
                 rag, thread, exc_msg, inits, chatVars, auxVars>>

\* ----------------------------------------------------------- specification
\* the state of the module with the coroutines S not started and nothing in
\* flight, h being the engine get_rag has built for the default provider
\* (None after import, the handle of the first initialization later on)
OrchStateOver(S, h) ==
  /\ OPENROUTER_API_KEY \in BOOLEAN
  /\ HF_GENERATE_LOCK = None
  /\ rag_hf = h
  /\ rag_or = None
  /\ rag_init_lock = None
  /\ init_waiters = <<>>
  /\ rag_query_lock = None
  /\ query_waiters = <<>>
  /\ pc = [c \in S |-> "idle"]
  /\ username = [c \in S |-> NoUsername]
  /\ session_id = [c \in S |-> NoSession]
  /\ options = [c \in S |-> DEFAULT_OPTIONS]
  /\ param = [c \in S |-> NoParam]
  /\ raw_entries = [c \in S |-> NotRead]
  /\ llm_provider = [c \in S |-> "hf"]
  /\ timeout_s = [c \in S |-> DEFAULT_TIMEOUT]
  /\ rag = [c \in S |-> None]
  /\ thread = [c \in S |-> "none"]
  /\ exc_msg = [c \in S |-> NoMsg]
  /\ result = [c \in S |-> NoResult]
  /\ in_query = [c \in S |-> "no"]
  /\ ended_by = [c \in S |-> "none"]
  /\ inits = [p \in _ALLOWED_LLM_PROVIDERS |->
                IF p = "hf" /\ h # None THEN 1 ELSE 0]

\* the state of the module after import, with the coroutines S not started
OrchInitOver(S) == OrchStateOver(S, None)

\* no route of backend_api.py other than chat is in use
RegIdle ==
  /\ registered = [u \in UserNames |-> 0]
  /\ reg = <<>>

\* no completion function is called on its own
UsageIdle ==
  /\ token_collection = {}
  /\ token_store_up = TRUE
  /\ llm = <<>>
  /\ llm_result = <<>>

\* no setOptions request
SetIdle == so = <<>>

\* no deadline is set and no time is measured
TimeIdle ==
  /\ route_timeout = <<>>
  /\ age_route = <<>>
  /\ age_query = <<>>
  /\ age_wait = <<>>

\* the process serves with its loop running and no run_async call is followed
LoopIdle ==
  /\ _loop = 1
  /\ _loop_thread = 1
  /\ loop_threads = <<"running">>
  /\ serving = TRUE
  /\ signals = 0
  /\ ra = <<>>

ApiIdle == RegIdle /\ UsageIdle /\ SetIdle /\ TimeIdle /\ LoopIdle

OrchInit ==
  /\ OrchInitOver(Calls)
  /\ ApiIdle
  /\ caller = [c \in Calls |-> "generate_output"]

ChatIdle ==
  /\ chatlogs = <<>>
  /\ user_collection = <<>>
  /\ clock = 0
  /\ rpc = <<>>
  /\ req = <<>>
  /\ rhist = <<>>
  /\ ai_response = <<>>

Init == OrchInit /\ ChatIdle

\* the steps of a started generate_output, of its worker thread and of the
\* route's deadline
OrchSteps ==
  \/ \E c \in DOMAIN pc : InitLockGranted(c)
  \/ \E c \in DOMAIN pc : InitReturns(c)
  \/ \E c \in DOMAIN pc : InitRaises(c)
  \/ \E c \in DOMAIN pc : QueryLockGranted(c)
  \/ \E c \in DOMAIN pc : EngineCallsCompletion(c)
  \/ \E c \in DOMAIN pc : HfGenerateEnter(c)
  \/ \E c \in DOMAIN pc : HfGenerateReturns(c)
  \/ \E c \in DOMAIN pc : OpenRouterReturns(c)
  \/ \E c \in DOMAIN pc : EngineReturns(c)
  \/ \E c \in DOMAIN pc, m \in EngineMsgs : EngineRaises(c, m)
  \/ \E c \in DOMAIN pc : WaitForCompletes(c)
  \/ \E c \in DOMAIN pc : WaitForTimesOut(c)
  \/ \E c \in DOMAIN pc : Cancel(c)

Next ==
  \/ \E c \in DOMAIN pc, p \in _ALLOWED_LLM_PROVIDERS, t \in TimeoutChoices :
        GenerateOutput(c, p, t)
  \/ OrchSteps

Spec == Init /\ [][Next]_vars

\* get_rag alone: NumGetRagCalls coroutines that await get_rag(p)
GetRagInit ==
  /\ OrchInitOver(GetRagCalls)
  /\ ApiIdle
  /\ caller = [c \in GetRagCalls |-> "get_rag"]
  /\ ChatIdle

GetRagNext ==
  \/ \E c \in DOMAIN pc, p \in _ALLOWED_LLM_PROVIDERS : AwaitGetRag(c, p)
  \/ \E c \in DOMAIN pc : InitLockGranted(c)
  \/ \E c \in DOMAIN pc : InitReturns(c)
  \/ \E c \in DOMAIN pc : InitRaises(c)
  \/ \E c \in DOMAIN pc : Cancel(c)

SpecGetRag == GetRagInit /\ [][GetRagNext]_vars

\* queries and document insertions on one loop: every coroutine is either a
\* generate_output or an insert_uploaded_files_to_rag
Callers == {"generate_output", "insert_uploaded_files_to_rag"}

InsertInit ==
  /\ OrchInitOver(InsertCalls)
  /\ ApiIdle
  /\ caller \in [InsertCalls -> Callers]
  /\ ChatIdle

InsertNext ==
  \/ \E c \in DOMAIN pc : insert_uploaded_files_to_rag(c)
  \/ \E c \in DOMAIN pc : InsertEnds(c)
  \/ Next

SpecInsert == InsertInit /\ [][InsertNext]_vars

\* ------------------------------------- generate_output against the stores
\* a session no user document lists
OrphanSession == "s3"

\* the turns the store holds for a session: n turns, user and assistant in
\* turn, with timestamps t0+1 .. t0+n
SessionTurns(sid, user, n, t0) ==
  [i \in 1..n |->
     Turn(IF i % 2 = 1 THEN "user" ELSE "assistant", Message(t0 + i), t0 + i,
          sid, user)]

\* what bob saved as options
BobOptions ==
  Options(PyBool(TRUE), PyInt(30), PyStr(" be brief "), PyStr("mix"),
          PyStr("openrouter"))

\* alice's document has no options (the chat route created it by upsert) and
\* lists s1; bob saved options and lists s2; s3 has no owner. The chat route
\* has just appended the first turn of s1 and of s3, and the third of s2.
GenerateInit ==
  /\ OrchInit
  /\ OPENROUTER_API_KEY = TRUE
  /\ user_collection = [u \in UserNames |->
                          IF u = "alice" THEN UserDoc({"s1"}, NoOptions)
                          ELSE UserDoc({"s2"}, BobOptions)]
  /\ chatlogs = SessionTurns("s1", "alice", 1, 0)
                  \o SessionTurns("s2", "bob", 3, 1)
                  \o SessionTurns(OrphanSession, "", 1, 4)
  /\ clock = 6
  /\ rpc = <<>>
  /\ req = <<>>
  /\ rhist = <<>>
  /\ ai_response = <<>>

GenerateNext ==
  \/ \E c \in DOMAIN pc, sid \in SessionIds \cup {OrphanSession} :
        generate_output(c, sid)
  \/ OrchSteps

SpecGenerate == GenerateInit /\ [][GenerateNext]_vars

\* ------------------------------------------------- _get_user_options alone
\* the values the fields of a stored options mapping are drawn from
TimeoutInts == {-1, 0, 4, 5, 6, 180, 599, 600, 601}
StoredChatHistory == {Missing, PyNone, PyBool(TRUE), PyBool(FALSE), PyInt(1)}
StoredTimeouts ==
  {Missing, PyNone, PyBool(TRUE), PyStr("abc"), PyNumStr(42), PyFloat(45),
   PyFloat(-15)} \cup {PyInt(k) : k \in TimeoutInts}
StoredPrompts == {Missing, PyStr(" be brief "), PyInt(1)}
StoredModes ==
  {Missing, PyNone, PyInt(1), PyStr("Naive")}
    \cup {PyStr(m) : m \in _ALLOWED_QUERY_MODES}
StoredProviders ==
  {Missing, PyInt(0), PyStr("HF")} \cup {PyStr(p) : p \in _ALLOWED_LLM_PROVIDERS}

\* the options field of a stored user document
StoredOptions ==
  {NonDictOptions(ty) : ty \in {"missing", "null", "str", "list"}}
    \cup {Options(ch, t, cp, qm, prov) :
            ch \in StoredChatHistory, t \in StoredTimeouts, cp \in StoredPrompts,
            qm \in StoredModes, prov \in StoredProviders}

\* _get_user_options(uname) is called and returns or raises (lines 305-338)
GetUserOptions(c, uname) ==
  /\ pc[c] = "idle"
  /\ caller[c] = "_get_user_options"
  /\ LET o == _get_user_options(user_collection, uname)
     IN /\ options' = [options EXCEPT ![c] = o]
        /\ ended_by' = [ended_by EXCEPT ![c] =
                          IF o.raised = "none" THEN "result" ELSE o.raised]
  /\ username' = [username EXCEPT ![c] = uname]
  /\ pc' = [pc EXCEPT ![c] = "ended"]
  /\ UNCHANGED <<OPENROUTER_API_KEY, HF_GENERATE_LOCK, session_id, param, raw_entries, caller,
                 rag_hf, rag_or, rag_init_lock, init_waiters, rag_query_lock,
                 query_waiters, llm_provider, timeout_s, rag, thread, exc_msg,
                 result, in_query, inits, chatVars, auxVars>>

\* the user store holds one document, alice's, with any stored options
OptionsInit ==
  /\ OrchInitOver(ResolveCalls)
  /\ ApiIdle
  /\ caller = [c \in ResolveCalls |-> "_get_user_options"]
  /\ \E o \in StoredOptions :
       user_collection = [u \in UserNames |->
                            IF u = "alice" THEN UserDoc({"s1"}, o) ELSE NoUser]
  /\ chatlogs = <<>>
  /\ clock = 0
  /\ rpc = <<>>
  /\ req = <<>>
  /\ rhist = <<>>
  /\ ai_response = <<>>

OptionsNext ==
  \E c \in DOMAIN pc, uname \in UserNames \cup {NoUsername} : GetUserOptions(c, uname)

SpecOptions == OptionsInit /\ [][OptionsNext]_vars

\* --------------------------------------- the history in the query parameters
\* alice owns s1 and has stored any chatHistory value or no options at all;
\* the turn store holds up to MaxStoredTurns turns of s1
ParamsInit ==
  /\ OrchInitOver(ParamCalls)
  /\ caller = [c \in ParamCalls |-> "generate_output"]
  /\ OPENROUTER_API_KEY = TRUE
  /\ ApiIdle
  /\ \E o \in {NoOptions} \cup
               {Options(ch, Missing, Missing, Missing, Missing) :
                  ch \in StoredChatHistory} :
       user_collection = [u \in UserNames |->
                            IF u = "alice" THEN UserDoc({"s1"}, o) ELSE NoUser]
  /\ \E n \in 0..MaxStoredTurns : chatlogs = SessionTurns("s1", "alice", n, 0)
  /\ clock = Len(chatlogs)
  /\ rpc = <<>>
  /\ req = <<>>
  /\ rhist = <<>>
  /\ ai_response = <<>>

ParamsNext ==
  \/ \E c \in DOMAIN pc : generate_output(c, "s1")
  \/ \E c \in DOMAIN pc : InitReturns(c)
  \/ \E c \in DOMAIN pc : InitRaises(c)
  \/ \E c \in DOMAIN pc : EngineCallsCompletion(c)
  \/ \E c \in DOMAIN pc : HfGenerateEnter(c)
  \/ \E c \in DOMAIN pc : HfGenerateReturns(c)
  \/ \E c \in DOMAIN pc : EngineReturns(c)
  \/ \E c \in DOMAIN pc, m \in EngineMsgs : EngineRaises(c, m)
  \/ \E c \in DOMAIN pc : WaitForCompletes(c)
  \/ \E c \in DOMAIN pc : WaitForTimesOut(c)
  \/ \E c \in DOMAIN pc : Cancel(c)

SpecParams == ParamsInit /\ [][ParamsNext]_vars

\* ======================================================== the chat route
\* chat, lines 249-262: the request is parsed, datetime.now() is read for the
\* default timestamp, and the user store is asked for the session
ChatBegin(r, user, sid, ts) ==
  /\ rpc[r] = "new"
  /\ req' = [req EXCEPT ![r] =
               [message |-> Message(r), session_id |-> sid,
                timestamp |-> IF ts = Absent THEN clock ELSE ts,
                user_name |-> user]]
  /\ clock' = clock + 1
  /\ rpc' = [rpc EXCEPT ![r] =
               IF /\ user_collection[user].present
                  /\ sid \in user_collection[user].session_list
               THEN "insert_user"
               ELSE "find_session"]
  /\ UNCHANGED <<chatlogs, user_collection, rhist, ai_response, orchVars, auxVars>>

\* chat, lines 263-264: does the turn store know the session?
ChatFindSession(r) ==
  /\ rpc[r] = "find_session"
  /\ rpc' = [rpc EXCEPT ![r] =
               IF \E i \in 1..Len(chatlogs) :
                    chatlogs[i].session_id = req[r].session_id
               THEN "insert_user"
               ELSE "attach"]
  /\ UNCHANGED <<chatlogs, user_collection, clock, req, rhist, ai_response,
                 orchVars, auxVars>>

\* chat, lines 265-269: $addToSet with upsert
ChatAttach(r) ==
  /\ rpc[r] = "attach"
  /\ user_collection' = [user_collection EXCEPT ![req[r].user_name] =
        [@ EXCEPT !.present = TRUE,
                  !.session_list = @ \cup {req[r].session_id}]]
  /\ rpc' = [rpc EXCEPT ![r] = "insert_user"]
  /\ UNCHANGED <<chatlogs, clock, req, rhist, ai_response, orchVars, auxVars>>

\* chat, lines 271-280: the user turn is stored
ChatInsertUser(r) ==
  /\ rpc[r] = "insert_user"
  /\ chatlogs' = Append(chatlogs,
        Turn("user", req[r].message, req[r].timestamp, req[r].session_id,
             req[r].user_name))
  /\ rpc' = [rpc EXCEPT ![r] = "generate"]
  /\ UNCHANGED <<user_collection, clock, req, rhist, ai_response, orchVars, auxVars>>

\* generate_output, lines 424-443, run for the request on the loop: get_rag
\* has returned, the history is read and attached
GenerateReadsHistory(r, chat_history_enabled) ==
  /\ rpc[r] = "generate"
  /\ rhist' = [rhist EXCEPT ![r] =
        ConversationHistory(chatlogs, req[r].session_id, chat_history_enabled)]
  /\ rpc' = [rpc EXCEPT ![r] = "query"]
  /\ UNCHANGED <<chatlogs, user_collection, clock, req, ai_response, orchVars, auxVars>>

\* generate_gdpr_response returns the text of _rag_query (line 283)
GenerateReturns(r, text) ==
  /\ rpc[r] = "query"
  /\ ai_response' = [ai_response EXCEPT ![r] = text]
  /\ rpc' = [rpc EXCEPT ![r] = "insert_assistant"]
  /\ UNCHANGED <<chatlogs, user_collection, clock, req, rhist, orchVars, auxVars>>

\* generate_gdpr_response raises: the route's deadline (run_async) at any
\* await, or the exception of get_rag before the history is read; the route
\* answers 504 or 500 (lines 302-309) and stores no assistant turn
GenerateRaises(r, e) ==
  /\ \/ rpc[r] = "generate"
     \/ rpc[r] = "query" /\ e = "TimeoutError"
  /\ ai_response' = [ai_response EXCEPT ![r] = Raised(e)]
  /\ rpc' = [rpc EXCEPT ![r] = "responded"]
  /\ UNCHANGED <<chatlogs, user_collection, clock, req, rhist, orchVars, auxVars>>

\* chat, lines 285-300: the assistant turn is stored with datetime.now()
ChatInsertAssistant(r) ==
  /\ rpc[r] = "insert_assistant"
  /\ chatlogs' = Append(chatlogs,
        Turn("assistant", ai_response[r], clock, req[r].session_id,
             req[r].user_name))
  /\ clock' = clock + 1
  /\ rpc' = [rpc EXCEPT ![r] = "responded"]
  /\ UNCHANGED <<user_collection, req, rhist, ai_response, orchVars, auxVars>>

NoReq == [message |-> Message(0), session_id |-> "", timestamp |-> Absent,
          user_name |-> ""]

ChatInit ==
  /\ OrchInit
  /\ chatlogs = <<>>
  /\ user_collection = [u \in UserNames |-> NoUser]
  /\ clock = 1
  /\ rpc = [r \in Reqs |-> "new"]
  /\ req = [r \in Reqs |-> NoReq]
  /\ rhist = [r \in Reqs |-> <<>>]
  /\ ai_response = [r \in Reqs |-> NoResult]

ChatNext ==
  \/ \E r \in Reqs, user \in UserNames, sid \in SessionIds,
        ts \in (0..MaxTs) \cup {Absent} : ChatBegin(r, user, sid, ts)
  \/ \E r \in Reqs : ChatFindSession(r)
  \/ \E r \in Reqs : ChatAttach(r)
  \/ \E r \in Reqs : ChatInsertUser(r)
  \/ \E r \in Reqs, h \in BOOLEAN : GenerateReadsHistory(r, h)
  \/ \E r \in Reqs, how \in {"result", "TimeoutError"} :
        GenerateReturns(r, RagQueryReturn(how, r, DEFAULT_TIMEOUT, NoMsg))
  \/ \E r \in Reqs, e \in {"TimeoutError", "InitError"} : GenerateRaises(r, e)
  \/ \E r \in Reqs : ChatInsertAssistant(r)

SpecChat == ChatInit /\ [][ChatNext]_vars

\* ------------------------------------------------------- the history window
\* a turn is stored (backend_api.py lines 271-279, 285-293): the turns of a
\* session alternate between the user and the assistant, datetime.now() is
\* the timestamp
AppendTurn(sid) ==
  /\ \A r \in DOMAIN rpc : rpc[r] = "new"
  /\ Len(chatlogs) < MaxTurns
  /\ LET n == Cardinality({i \in 1..Len(chatlogs) : chatlogs[i].session_id = sid})
         role == IF n % 2 = 0 THEN "user" ELSE "assistant"
     IN chatlogs' = Append(chatlogs, Turn(role, Message(clock), clock, sid, "alice"))
  /\ clock' = clock + 1
  /\ UNCHANGED <<user_collection, rpc, req, rhist, ai_response, orchVars, auxVars>>

\* generate_output reads the history of session sid (lines 436-438)
ReadHistory(r, sid) ==
  /\ rpc[r] = "new"
  /\ req' = [req EXCEPT ![r] = [NoReq EXCEPT !.session_id = sid]]
  /\ rhist' = [rhist EXCEPT ![r] = ConversationHistory(chatlogs, sid, TRUE)]
  /\ rpc' = [rpc EXCEPT ![r] = "query"]
  /\ UNCHANGED <<chatlogs, user_collection, clock, ai_response, orchVars, auxVars>>

HistoryInit ==
  /\ OrchInit
  /\ chatlogs = <<>>
  /\ user_collection = [u \in UserNames |-> NoUser]
  /\ clock = 1
  /\ rpc = <<"new">>
  /\ req = <<NoReq>>
  /\ rhist = << <<>> >>
  /\ ai_response = <<NoResult>>

HistoryNext ==
  \/ \E sid \in SessionIds : AppendTurn(sid)
  \/ \E r \in DOMAIN rpc, sid \in SessionIds : ReadHistory(r, sid)

SpecHistory == HistoryInit /\ [][HistoryNext]_vars

\* ------------------------------------------------- the completion functions
\* the message of the exception token_collection.insert_one raises
UsageMsg == {"usage insert failed"}
\* the text the model or the remote API produced for completion call c
Content(c) == [kind |-> "completion", id |-> c, t |-> 0, msg |-> NoMsg]
\* the empty text "" (line 234: `or ""`, line 236)
EmptyContent == [kind |-> "completion", id |-> 0, t |-> 0, msg |-> NoMsg]
\* the completion function of call c has not returned
NoCompletion == [text |-> NoResult, logged |-> {}]
\* a completion call that has not been made
NoLlmCall == [provider |-> "", pc |-> "idle", content |-> TRUE]
\* a document of the usage store; records that differ in their timestamp only
\* are not told apart. kind is "simple" (lines 170-176) or "raw" (188-193)
UsageRecord(p, c, kind) == [provider |-> p, prompt |-> c, kind |-> kind]

\* _log_simple_api_usage without its try/except: the exception of insert_one
\* reaches the completion function
_log_simple_api_usage_NoCatch(store, up, rec) ==
  IF up
  THEN [store |-> store \cup {rec}, raised |-> FALSE, logged |-> {rec.kind}]
  ELSE [store |-> store, raised |-> TRUE, logged |-> {}]

\* _log_simple_api_usage (lines 168-178): insert_one, and any Exception is
\* caught and printed
_log_simple_api_usage(store, up, rec) ==
  IF up
  THEN [store |-> store \cup {rec}, raised |-> FALSE, logged |-> {rec.kind}]
  ELSE [store |-> store, raised |-> FALSE, logged |-> {}]

\* _log_raw_api_response (lines 180-195): the payload is dumped and inserted,
\* and any Exception is caught and printed
_log_raw_api_response(store, up, rec) ==
  IF up
  THEN [store |-> store \cup {rec}, raised |-> FALSE, logged |-> {rec.kind}]
  ELSE [store |-> store, raised |-> FALSE, logged |-> {}]

\* an exception with message m that leaves a completion function
LlmRaised(m) == [kind |-> "Exception", id |-> 0, t |-> 0, msg |-> m]

\* a completion function ends: it returns text, or the exception with
\* message e leaves it (NoMsg: no exception)
LlmEnds(c, text, logged, e) ==
  /\ llm' = [llm EXCEPT ![c].pc = IF e = NoMsg THEN "returned" ELSE "raised"]
  /\ llm_result' = [llm_result EXCEPT ![c] =
                      [text |-> IF e = NoMsg THEN text ELSE LlmRaised(e),
                       logged |-> logged]]

\* llm_model_func_hf is called (lines 154-155): the chat text is built and
\* _hf_generate_once handed to a worker thread (its lock: HfGenerateEnter)
llm_model_func_hf(c) ==
  /\ llm[c].pc = "idle"
  /\ llm' = [llm EXCEPT ![c] = [provider |-> "hf", pc |-> "to_thread",
                                content |-> TRUE]]
  /\ UNCHANGED <<token_collection, token_store_up, llm_result, usageFrame>>

\* _hf_generate_once returned (lines 155-158): the usage is logged and the
\* text returned
LlmHfReturns(c) ==
  /\ llm[c].pc = "to_thread"
  /\ llm[c].provider = "hf"
  /\ LET out == _log_simple_api_usage(token_collection, token_store_up,
                                      UsageRecord("hf", c, "simple"))
     IN /\ token_collection' = out.store
        /\ LlmEnds(c, Content(c), out.logged,
                   IF out.raised THEN UsageMsg ELSE NoMsg)
  /\ UNCHANGED <<token_store_up, usageFrame>>

\* llm_model_func_openrouter is called (lines 218-232): without the credential
\* it raises, with it the request is handed to a worker thread; the
\* completion the API will answer with carries a content or none
llm_model_func_openrouter(c, content) ==
  /\ llm[c].pc = "idle"
  /\ IF OpenRouterKeyMissing
     THEN /\ llm' = [llm EXCEPT ![c] = [provider |-> "openrouter",
                                        pc |-> "raised", content |-> content]]
          /\ llm_result' = [llm_result EXCEPT ![c] =
                              [text |-> LlmRaised(ConfigMsg), logged |-> {}]]
     ELSE /\ llm' = [llm EXCEPT ![c] = [provider |-> "openrouter",
                                        pc |-> "to_thread", content |-> content]]
          /\ UNCHANGED llm_result
  /\ UNCHANGED <<token_collection, token_store_up, usageFrame>>

\* client.chat.completions.create returned (lines 232-240): the content is
\* taken ("" when there is none), the usage and the raw response are logged,
\* the content is returned
LlmOpenRouterReturns(c) ==
  /\ llm[c].pc = "to_thread"
  /\ llm[c].provider = "openrouter"
  /\ LET simple == _log_simple_api_usage(token_collection, token_store_up,
                                         UsageRecord("openrouter", c, "simple"))
         raw == _log_raw_api_response(simple.store, token_store_up,
                                      UsageRecord("openrouter", c, "raw"))
         text == IF llm[c].content THEN Content(c) ELSE EmptyContent
     IN IF simple.raised
        THEN /\ token_collection' = simple.store
             /\ LlmEnds(c, text, simple.logged, UsageMsg)
        ELSE /\ token_collection' = raw.store
             /\ LlmEnds(c, text, simple.logged \cup raw.logged,
                        IF raw.raised THEN UsageMsg ELSE NoMsg)
  /\ UNCHANGED <<token_store_up, usageFrame>>

\* the worker thread raised (generation error, API error): the exception
\* leaves the completion function at line 155 or 232, nothing is logged
LlmWorkerRaises(c) ==
  /\ llm[c].pc = "to_thread"
  /\ LlmEnds(c, NoResult, {}, {})
  /\ UNCHANGED <<token_collection, token_store_up, usageFrame>>

\* the usage store becomes unreachable, or reachable again
UsageStoreFlips ==
  /\ token_store_up' = ~token_store_up
  /\ UNCHANGED <<token_collection, llm, llm_result, usageFrame>>

UsageInit ==
  /\ OrchInitOver({})
  /\ caller = <<>>
  /\ ChatIdle
  /\ RegIdle
  /\ SetIdle
  /\ TimeIdle
  /\ LoopIdle
  /\ token_collection = {}
  /\ token_store_up \in BOOLEAN
  /\ llm = [c \in LlmCalls |-> NoLlmCall]
  /\ llm_result = [c \in LlmCalls |-> NoCompletion]

UsageNext ==
  \/ \E c \in LlmCalls : llm_model_func_hf(c)
  \/ \E c \in LlmCalls : LlmHfReturns(c)
  \/ \E c \in LlmCalls, content \in BOOLEAN : llm_model_func_openrouter(c, content)
  \/ \E c \in LlmCalls : LlmOpenRouterReturns(c)
  \/ \E c \in LlmCalls : LlmWorkerRaises(c)
  \/ UsageStoreFlips

SpecUsage == UsageInit /\ [][UsageNext]_vars

\* ======================================================= the setOptions route
\* backend_api.py lines 547-549
_TIMEOUT_MIN == 5
_TIMEOUT_MAX == 300
_ALLOWED_MODES == {"local", "global", "hybrid", "naive", "mix"}

\* DEFAULT_OPTIONS of backend_api.py (lines 539-544), with the defaults
\* _normalize_options gives queryMode and llmProvider (lines 578, 594); the
\* language and the responseType, which the orchestrator does not read, are
\* left out
API_DEFAULT_OPTIONS ==
  Options(PyBool(FALSE), PyInt(30), PyStr(""), PyStr("naive"), PyStr("hf"))

\* bool(v): the truth value of a Python value (a list of the model is [])
bool(v) ==
  CASE v.ty \in {"bool", "int", "float"} -> v.n # 0
    [] v.ty = "str" -> v.s # ""
    [] OTHER -> FALSE

\* `v in S` for a set S of str: a list is unhashable and raises TypeError
InSet(v, S) ==
  [raised |-> v.ty = "list", member |-> v.ty = "str" /\ v.s \in S]

\* the names of the option fields
OptionFields == {"chatHistory", "timeout", "customPrompt", "queryMode", "llmProvider"}

\* _normalize_options (lines 551-605): every field is taken from the update or
\* from the defaults
_normalize_options(opts) ==
  LET o == IF opts.ty = "dict" THEN opts ELSE NonDictOptions("missing")
      t == int(Get(o.timeout, API_DEFAULT_OPTIONS.timeout))
      qm == Get(o.queryMode, API_DEFAULT_OPTIONS.queryMode)
      prov == Get(o.llmProvider, API_DEFAULT_OPTIONS.llmProvider)
      cp == Get(o.customPrompt, API_DEFAULT_OPTIONS.customPrompt)
  IN [raised |-> IF InSet(qm, _ALLOWED_MODES).raised
                    \/ InSet(prov, _ALLOWED_LLM_PROVIDERS).raised
                 THEN "TypeError" ELSE "none",
      options |->
        Options(PyBool(bool(Get(o.chatHistory, API_DEFAULT_OPTIONS.chatHistory))),
                PyInt(max(_TIMEOUT_MIN, min(_TIMEOUT_MAX,
                      IF t.ok THEN t.n ELSE API_DEFAULT_OPTIONS.timeout.n))),
                IF cp.ty = "str" THEN cp ELSE API_DEFAULT_OPTIONS.customPrompt,
                IF InSet(qm, _ALLOWED_MODES).member THEN qm
                ELSE API_DEFAULT_OPTIONS.queryMode,
                IF InSet(prov, _ALLOWED_LLM_PROVIDERS).member THEN prov
                ELSE API_DEFAULT_OPTIONS.llmProvider)]

\* a setOptions request that has not arrived
NoSetReq == [pc |-> "new", username |-> "", options |-> NoOptions, status |-> 0]

\* set_options (lines 656-675): the update is normalized and written with
\* $set on the options field, creating the user document when there is none
set_options(r, u, options_in) ==
  /\ so[r].pc = "new"
  /\ LET clean == _normalize_options(options_in)
         status == IF strip(u) = "" THEN 400
                   ELSE IF clean.raised # "none" THEN 500 ELSE 200
     IN /\ so' = [so EXCEPT ![r] = [pc |-> "done", username |-> u,
                                    options |-> options_in, status |-> status]]
        /\ user_collection' =
             IF status = 200
             THEN [user_collection EXCEPT ![u] =
                     [@ EXCEPT !.present = TRUE, !.options = clean.options]]
             ELSE user_collection
  /\ UNCHANGED <<chatlogs, clock, rpc, req, rhist, ai_response, orchVars,
                 usageVars, regVars, timeVars, loopVars>>

\* the options field of the requests: not a mapping, the empty mapping,
\* mappings with one field, with all fields, with values of the wrong type
SetInputs ==
  {NonDictOptions("list"),
   Options(Missing, Missing, Missing, Missing, Missing),
   Options(PyBool(TRUE), Missing, Missing, Missing, Missing),
   Options(Missing, PyInt(60), Missing, Missing, Missing),
   Options(Missing, Missing, Missing, Missing, PyStr("openrouter")),
   Options(PyBool(TRUE), PyInt(60), PyStr(" be brief "), PyStr("mix"),
           PyStr("openrouter")),
   Options(PyStr("no"), PyInt(700), PyInt(1), PyStr("Naive"), PyStr("HF")),
   Options(PyInt(0), PyStr("abc"), Missing, PyList, Missing)}

\* the usernames of the requests; "" stands for no or a blank username
SetUserNames == UserNames \cup {""}

SetOptionsInit ==
  /\ OrchInitOver({})
  /\ caller = <<>>
  /\ chatlogs = <<>>
  /\ user_collection = [u \in SetUserNames |-> NoUser]
  /\ clock = 0
  /\ rpc = <<>>
  /\ req = <<>>
  /\ rhist = <<>>
  /\ ai_response = <<>>
  /\ RegIdle
  /\ UsageIdle
  /\ TimeIdle
  /\ LoopIdle
  /\ so = [r \in SetReqs |-> NoSetReq]

SetOptionsNext ==
  \E r \in SetReqs, u \in SetUserNames, o \in SetInputs : set_options(r, u, o)

SpecSetOptions == SetOptionsInit /\ [][SetOptionsNext]_vars

\* ======================================================== the register route
\* a register request that has not arrived
NoReg == [pc |-> "new", username |-> "", password |-> FALSE, status |-> 0]

\* register, lines 159-169: the body is read, the credentials are checked
\* and the user store is asked for the username; password is TRUE iff the
\* body carries a non-empty password
RegisterBegin(r, u, password) ==
  /\ reg[r].pc = "new"
  /\ reg' = [reg EXCEPT ![r] =
       IF u = "" \/ ~password
       THEN [pc |-> "done", username |-> u, password |-> password, status |-> 400]
       ELSE IF user_collection[u].present
       THEN [pc |-> "done", username |-> u, password |-> password, status |-> 409]
       ELSE [pc |-> "insert", username |-> u, password |-> password, status |-> 0]]
  /\ UNCHANGED <<registered, chatVars, orchVars, usageVars, setVars, timeVars,
                 loopVars>>

\* register, lines 171-180: the password is hashed and the document inserted
RegisterInsert(r) ==
  /\ reg[r].pc = "insert"
  /\ registered' = [registered EXCEPT ![reg[r].username] = @ + 1]
  /\ user_collection' = [user_collection EXCEPT ![reg[r].username] =
                           [@ EXCEPT !.present = TRUE]]
  /\ reg' = [reg EXCEPT ![r].pc = "done", ![r].status = 201]
  /\ UNCHANGED <<chatlogs, clock, rpc, req, rhist, ai_response, orchVars,
                 usageVars, setVars, timeVars, loopVars>>

RegisterInit ==
  /\ OrchInitOver({})
  /\ caller = <<>>
  /\ chatlogs = <<>>
  /\ user_collection = [u \in SetUserNames |-> NoUser]
  /\ clock = 0
  /\ rpc = <<>>
  /\ req = <<>>
  /\ rhist = <<>>
  /\ ai_response = <<>>
  /\ UsageIdle
  /\ SetIdle
  /\ TimeIdle
  /\ LoopIdle
  /\ registered = [u \in SetUserNames |-> 0]
  /\ reg = [r \in Regs |-> NoReg]

RegisterNext ==
  \/ \E r \in Regs, u \in SetUserNames, password \in BOOLEAN :
        RegisterBegin(r, u, password)
  \/ \E r \in Regs : RegisterInsert(r)

SpecRegister == RegisterInit /\ [][RegisterNext]_vars

\* ============================================================ the accounts
\* login, lines 203-223: the status of POST /api/login for username u, with
\* a non-empty password iff password, the right one iff matches. The
\* documents of a username are one record of the model, which carries a
\* password hash iff register inserted a document; user['password'] of a
\* document without one raises KeyError, which line 221 turns into 500.
login(users, inserted, u, password, matches) ==
  CASE u = "" \/ ~password -> 400
    [] ~users[u].present -> 404
    [] inserted[u] = 0 -> 500
    [] ~matches -> 401
    [] OTHER -> 200

\* POST /api/login is answered
Login(r, u, password, matches) ==
  /\ reg[r].pc = "new"
  /\ reg' = [reg EXCEPT ![r] =
       [pc |-> "login_done", username |-> u, password |-> password,
        status |-> login(user_collection, registered, u, password, matches)]]
  /\ UNCHANGED <<registered, chatVars, orchVars, usageVars, setVars, timeVars,
                 loopVars>>

\* the stores are empty; register, login, setOptions and chat requests
AccountsInit ==
  /\ OrchInitOver({})
  /\ OPENROUTER_API_KEY
  /\ caller = <<>>
  /\ chatlogs = <<>>
  /\ user_collection = [u \in UserNames |-> NoUser]
  /\ clock = 1
  /\ rpc = [r \in Reqs |-> "new"]
  /\ req = [r \in Reqs |-> NoReq]
  /\ rhist = [r \in Reqs |-> <<>>]
  /\ ai_response = [r \in Reqs |-> NoResult]
  /\ UsageIdle
  /\ TimeIdle
  /\ LoopIdle
  /\ registered = [u \in UserNames |-> 0]
  /\ reg = [r \in Regs |-> NoReg]
  /\ so = [r \in SetReqs |-> NoSetReq]

\* the requests against the user store; of the chat route the steps up to
\* the attachment of the session (lines 249-269), after which it leaves the
\* user store alone
AccountsNext ==
  \/ \E r \in Regs, u \in UserNames \cup {""}, password \in BOOLEAN :
        RegisterBegin(r, u, password)
  \/ \E r \in Regs : RegisterInsert(r)
  \/ \E r \in Regs, u \in UserNames \cup {""}, password, matches \in BOOLEAN :
        Login(r, u, password, matches)
  \/ \E r \in SetReqs, u \in UserNames :
        set_options(r, u, Options(PyBool(TRUE), Missing, Missing, Missing,
                                  Missing))
  \/ \E r \in DOMAIN rpc, u \in UserNames : ChatBegin(r, u, "s1", Absent)
  \/ \E r \in DOMAIN rpc : ChatFindSession(r)
  \/ \E r \in DOMAIN rpc : ChatAttach(r)

SpecAccounts == AccountsInit /\ [][AccountsNext]_vars

\* ============================================================== getOptions
\* DEFAULT_OPTIONS of backend_api.py as get_options reports it (lines
\* 539-544): the dict has no queryMode and no llmProvider
ReportedDefaults ==
  [API_DEFAULT_OPTIONS EXCEPT !.queryMode = Missing, !.llmProvider = Missing]

\* get_options, lines 626-634: status and body of GET /getOptions?username=u.
\* The projection of a document without options is the empty dict, which is
\* falsy; an exception of _normalize_options is not caught (500).
get_options(users, u) ==
  LET name == strip(u)
      stored == IF name \in DOMAIN users /\ users[name].present
                THEN users[name].options ELSE NoOptions
      clean == _normalize_options(stored)
  IN CASE name = "" -> [status |-> 400, options |-> NoOptions]
       [] stored.ty = "missing" -> [status |-> 200, options |-> ReportedDefaults]
       [] clean.raised # "none" -> [status |-> 500, options |-> NoOptions]
       [] OTHER -> [status |-> 200, options |-> clean.options]

\* GET /getOptions?username=u is answered
GetOptions(r, u) ==
  /\ so[r].pc = "new"
  /\ LET answer == get_options(user_collection, u)
     IN so' = [so EXCEPT ![r] = [pc |-> "done", username |-> strip(u),
                                 options |-> answer.options,
                                 status |-> answer.status]]
  /\ UNCHANGED <<orchVars, chatVars, usageVars, regVars, timeVars, loopVars>>

\* alice has no document, a document without options, or stored options;
\* bob has no document
GetOptionsInit ==
  /\ OrchInitOver(ResolveCalls)
  /\ caller = [c \in ResolveCalls |-> "_get_user_options"]
  /\ \E d \in {NoUser} \cup {UserDoc({"s1"}, o) : o \in {NoOptions} \cup SetInputs} :
       user_collection = [u \in UserNames |-> IF u = "alice" THEN d ELSE NoUser]
  /\ chatlogs = <<>>
  /\ clock = 0
  /\ rpc = <<>>
  /\ req = <<>>
  /\ rhist = <<>>
  /\ ai_response = <<>>
  /\ RegIdle
  /\ UsageIdle
  /\ TimeIdle
  /\ LoopIdle
  /\ so = [r \in GetReqs |-> NoSetReq]

GetOptionsNext ==
  \/ \E r \in DOMAIN so, u \in SetUserNames : GetOptions(r, u)
  \/ \E c \in DOMAIN pc, uname \in UserNames : GetUserOptions(c, uname)

SpecGetOptions == GetOptionsInit /\ [][GetOptionsNext]_vars

\* ================================================= the deadline of the route
\* no deadline: the route has not computed timeout_s
NoDeadline == [user_name |-> "", raised |-> "none", n |-> 0]

\* chat, lines 256-259: timeout_s of the request of user_name.
\* `(user_doc or {}).get("options") or {}` takes {} for a missing, null or
\* empty options field (the list of the model is []) and the stored value
\* otherwise, and .get on a str raises AttributeError; int() raises for a
\* value that is no number; a value outside [5, 600] is replaced by 180.
ChatTimeout(users, user_name) ==
  LET stored == IF user_name \in DOMAIN users /\ users[user_name].present
                THEN users[user_name].options ELSE NoOptions
      opts == IF stored.ty = "dict" THEN stored ELSE NoOptions
      t == int(Get(opts.timeout, PyInt(180)))
  IN CASE stored.ty = "str" ->
            [user_name |-> user_name, raised |-> "AttributeError", n |-> 0]
       [] ~t.ok ->
            [user_name |-> user_name, raised |-> "TypeError", n |-> 0]
       [] OTHER ->
            [user_name |-> user_name, raised |-> "none",
             n |-> IF t.n < 5 \/ t.n > 600 THEN 180 ELSE t.n]

\* chat, lines 249-259: the request of user_name is read and its deadline
\* computed; an exception takes the route to line 304 (500)
ChatResolvesDeadline(c, user_name) ==
  /\ pc[c] = "idle"
  /\ caller[c] = "chat"
  /\ LET d == ChatTimeout(user_collection, user_name)
     IN /\ route_timeout' = [route_timeout EXCEPT ![c] = d]
        /\ pc' = [pc EXCEPT ![c] = IF d.raised = "none" THEN "deadline_set"
                                   ELSE "ended"]
        /\ ended_by' = [ended_by EXCEPT ![c] =
                          IF d.raised = "none" THEN @ ELSE d.raised]
  /\ UNCHANGED <<OPENROUTER_API_KEY, HF_GENERATE_LOCK, username, session_id,
                 options, param, raw_entries, rag_hf, rag_or, rag_init_lock,
                 init_waiters, rag_query_lock, query_waiters, caller,
                 llm_provider, timeout_s, rag, thread, exc_msg, result,
                 in_query, inits, chatVars, usageVars, regVars, setVars,
                 age_route, age_query, age_wait, loopVars>>

\* generate_output of the request, lines 424-431: the owner of the session
\* is looked up and its options are resolved
ChatGenerateResolves(c, sid) ==
  /\ pc[c] = "deadline_set"
  /\ \E u \in _find_username_by_session(user_collection, sid) :
       LET o == _get_user_options(user_collection, u)
       IN /\ username' = [username EXCEPT ![c] = u]
          /\ options' = [options EXCEPT ![c] = o]
          /\ timeout_s' = [timeout_s EXCEPT ![c] =
                             IF o.raised = "none" THEN o.timeout.n ELSE @]
          /\ ended_by' = [ended_by EXCEPT ![c] =
                            IF o.raised = "none" THEN "result" ELSE o.raised]
  /\ session_id' = [session_id EXCEPT ![c] = sid]
  /\ pc' = [pc EXCEPT ![c] = "ended"]
  /\ UNCHANGED <<OPENROUTER_API_KEY, HF_GENERATE_LOCK, param, raw_entries,
                 rag_hf, rag_or, rag_init_lock, init_waiters, rag_query_lock,
                 query_waiters, caller, llm_provider, rag, thread, exc_msg,
                 result, in_query, inits, chatVars, auxVars>>

\* alice owns s1 and has stored any options; her chat requests for s1
DeadlineInit ==
  /\ OrchInitOver(DeadlineCalls)
  /\ caller = [c \in DeadlineCalls |-> "chat"]
  /\ \E o \in StoredOptions :
       user_collection = [u \in UserNames |->
                            IF u = "alice" THEN UserDoc({"s1"}, o) ELSE NoUser]
  /\ chatlogs = <<>>
  /\ clock = 0
  /\ rpc = <<>>
  /\ req = <<>>
  /\ rhist = <<>>
  /\ ai_response = <<>>
  /\ RegIdle
  /\ UsageIdle
  /\ SetIdle
  /\ route_timeout = [c \in DeadlineCalls |-> NoDeadline]
  /\ age_route = [c \in DeadlineCalls |-> 0]
  /\ age_query = [c \in DeadlineCalls |-> 0]
  /\ age_wait = [c \in DeadlineCalls |-> 0]
  /\ LoopIdle

DeadlineNext ==
  \/ \E c \in DOMAIN pc : ChatResolvesDeadline(c, "alice")
  \/ \E c \in DOMAIN pc : ChatGenerateResolves(c, "s1")

SpecDeadline == DeadlineInit /\ [][DeadlineNext]_vars

\* ============================================================ measured time
\* Time is counted in seconds by three clocks per request: age_route since
\* run_async began to wait for the future (backend_api.py line 63), age_query
\* since _rag_query was entered (line 388), age_wait since wait_for was
\* started (line 392). Tick lets one second pass.

\* the time _rag_query may take after its timeout to hand over its answer
Grace == 1

\* the timeouts alice may have stored: below the minimum, and the minimum
TimedStoredTimeouts == {4, 5}

\* the request waits in run_async for the result of its coroutine
RouteWaits(c) ==
  /\ route_timeout[c] # NoDeadline
  /\ route_timeout[c].raised = "none"
  /\ pc[c] \notin {"idle", "ended"}

\* chat, lines 249-259 and 283: the deadline of the request of user_name is
\* computed and run_async begins to wait that long for generate_output
RouteSetsDeadline(c, user_name) ==
  /\ pc[c] = "idle"
  /\ route_timeout[c] = NoDeadline
  /\ route_timeout' = [route_timeout EXCEPT ![c] =
                         ChatTimeout(user_collection, user_name)]
  /\ UNCHANGED <<orchVars, chatVars, usageVars, regVars, setVars, age_route,
                 age_query, age_wait, loopVars>>

\* run_async submits generate_output(user_input, sid) to the loop (lines 61,
\* 283), which runs it to its first suspension
RouteSubmits(c, sid) ==
  /\ route_timeout[c] # NoDeadline
  /\ route_timeout[c].raised = "none"
  /\ generate_output(c, sid)

\* one second passes. The loop is not busy: a timer that is due (wait_for's
\* timeout, the deadline of fut.result) fires, a free lock is handed to its
\* first waiter and a finished worker is seen before more time passes, and a
\* request with a deadline has been submitted.
Tick ==
  /\ \E c \in DOMAIN pc : RouteWaits(c)
  /\ rag_query_lock = None => query_waiters = <<>>
  /\ \A c \in DOMAIN pc : pc[c] = "querying" => thread[c] # "ok"
  /\ \A c \in DOMAIN pc :
       /\ route_timeout[c] # NoDeadline /\ route_timeout[c].raised = "none"
            => pc[c] # "idle"
       /\ RouteWaits(c) => age_route[c] < route_timeout[c].n
       /\ pc[c] = "querying" => age_wait[c] < timeout_s[c]
  /\ age_route' = [c \in DOMAIN pc |->
                     IF RouteWaits(c) THEN age_route[c] + 1 ELSE age_route[c]]
  /\ age_query' = [c \in DOMAIN pc |->
                     IF RouteWaits(c) /\ in_query[c] = "active"
                     THEN age_query[c] + 1 ELSE age_query[c]]
  /\ age_wait' = [c \in DOMAIN pc |->
                    IF pc[c] = "querying" THEN age_wait[c] + 1 ELSE age_wait[c]]
  /\ UNCHANGED <<orchVars, chatVars, usageVars, regVars, setVars,
                 route_timeout, loopVars>>

\* wait_for(..., timeout=timeout_s) raises TimeoutError once timeout_s seconds
\* have passed since it was started (line 392)
TimedWaitForTimesOut(c) ==
  /\ age_wait[c] >= timeout_s[c]
  /\ WaitForTimesOut(c)

\* fut.result(timeout) raises once the deadline of the route has passed and
\* run_async cancels the coroutine (backend_api.py lines 63-67)
TimedCancel(c) ==
  /\ RouteWaits(c)
  /\ age_route[c] >= route_timeout[c].n
  /\ Cancel(c)

\* alice owns s1 and has stored a timeout; an earlier request has had the
\* engine of the default provider built
TimedInit ==
  /\ OrchStateOver(TimedCalls, 1)
  /\ OPENROUTER_API_KEY
  /\ caller = [c \in TimedCalls |-> "generate_output"]
  /\ \E t \in TimedStoredTimeouts :
       user_collection = [u \in UserNames |->
          IF u = "alice"
          THEN UserDoc({"s1"}, Options(Missing, PyInt(t), Missing, Missing,
                                       Missing))
          ELSE NoUser]
  /\ chatlogs = <<>>
  /\ clock = 0
  /\ rpc = <<>>
  /\ req = <<>>
  /\ rhist = <<>>
  /\ ai_response = <<>>
  /\ RegIdle
  /\ UsageIdle
  /\ SetIdle
  /\ route_timeout = [c \in TimedCalls |-> NoDeadline]
  /\ age_route = [c \in TimedCalls |-> 0]
  /\ age_query = [c \in TimedCalls |-> 0]
  /\ age_wait = [c \in TimedCalls |-> 0]
  /\ LoopIdle

\* the requests of alice, the worker threads (rag.query returns or goes on),
\* the timers and the clock
TimedNext ==
  \/ \E c \in DOMAIN pc : RouteSetsDeadline(c, "alice")
  \/ \E c \in DOMAIN pc : RouteSubmits(c, "s1")
  \/ \E c \in DOMAIN pc : QueryLockGranted(c)
  \/ \E c \in DOMAIN pc : EngineReturns(c)
  \/ \E c \in DOMAIN pc : WaitForCompletes(c)
  \/ \E c \in DOMAIN pc : TimedWaitForTimesOut(c)
  \/ \E c \in DOMAIN pc : TimedCancel(c)
  \/ Tick

SpecTimed == TimedInit /\ [][TimedNext]_vars

\* ============================================================ the event loop
\* a run_async call that has not begun
NoRunAsync == [pc |-> "idle", loop |-> 0]

\* `_loop_thread and _loop_thread.is_alive()` (line 40): a thread is alive
\* from start() until its target returns
LoopThreadAlive ==
  /\ _loop_thread # 0
  /\ loop_threads[_loop_thread] # "dead"

\* the loop threads that have been started and have not ended
AliveLoopThreads == {i \in DOMAIN loop_threads : loop_threads[i] # "dead"}

\* __main__, lines 682-683: ensure_loop_started() is called by the main
\* thread, alone, and app.run begins to serve
MainStarts ==
  /\ ~serving
  /\ IF LoopThreadAlive
     THEN UNCHANGED <<_loop_thread, loop_threads>>
     ELSE /\ loop_threads' = Append(loop_threads, "started")
          /\ _loop_thread' = Len(loop_threads) + 1
  /\ serving' = TRUE
  /\ UNCHANGED <<orchVars, chatVars, usageVars, regVars, setVars, timeVars,
                 _loop, signals, ra>>

\* _loop_worker, lines 30-33: the thread creates its loop, assigns the
\* global and runs the loop
LoopWorkerCreates(i) ==
  /\ loop_threads[i] = "started"
  /\ loop_threads' = [loop_threads EXCEPT ![i] = "running"]
  /\ _loop' = i
  /\ UNCHANGED <<orchVars, chatVars, usageVars, regVars, setVars, timeVars,
                 _loop_thread, serving, signals, ra>>

\* run_async -> ensure_loop_started, line 40: the request thread tests the
\* global thread
EnsureChecks(r) ==
  /\ serving
  /\ ra[r].pc = "idle"
  /\ ra' = [ra EXCEPT ![r].pc = IF LoopThreadAlive THEN "submit" ELSE "start"]
  /\ UNCHANGED <<orchVars, chatVars, usageVars, regVars, setVars, timeVars,
                 _loop, _loop_thread, loop_threads, serving, signals>>

\* ensure_loop_started, lines 42-43: the request thread replaces the global
\* thread by a new one and starts it
EnsureStarts(r) ==
  /\ ra[r].pc = "start"
  /\ loop_threads' = Append(loop_threads, "started")
  /\ _loop_thread' = Len(loop_threads) + 1
  /\ ra' = [ra EXCEPT ![r].pc = "submit"]
  /\ UNCHANGED <<orchVars, chatVars, usageVars, regVars, setVars, timeVars,
                 _loop, serving, signals>>

\* run_async, line 62: run_coroutine_threadsafe(coro, _loop) with the value
\* the global has now; with None it raises AttributeError
RunAsyncSubmits(r) ==
  /\ ra[r].pc = "submit"
  /\ ra' = [ra EXCEPT ![r] = [pc |-> IF _loop = 0 THEN "raised"
                                     ELSE "submitted",
                              loop |-> _loop]]
  /\ UNCHANGED <<orchVars, chatVars, usageVars, regVars, setVars, timeVars,
                 _loop, _loop_thread, loop_threads, serving, signals>>

\* _graceful_shutdown as the handler of SIGINT or SIGTERM (lines 72-85): it
\* stops the running loop, whose thread leaves run_forever and ends; the
\* handler returns and the process goes on serving
GracefulShutdown ==
  /\ serving
  /\ signals < MaxSignals
  /\ signals' = signals + 1
  /\ loop_threads' = IF _loop # 0 /\ loop_threads[_loop] = "running"
                     THEN [loop_threads EXCEPT ![_loop] = "dead"]
                     ELSE loop_threads
  /\ UNCHANGED <<orchVars, chatVars, usageVars, regVars, setVars, timeVars,
                 _loop, _loop_thread, serving, ra>>

\* the module after import (lines 21-23), no coroutine in the orchestrator
LoopInit ==
  /\ OrchInitOver({})
  /\ caller = <<>>
  /\ ChatIdle
  /\ RegIdle
  /\ UsageIdle
  /\ SetIdle
  /\ TimeIdle
  /\ _loop = 0
  /\ _loop_thread = 0
  /\ loop_threads = <<>>
  /\ serving = FALSE
  /\ signals = 0
  /\ ra = [r \in RunAsyncCalls |-> NoRunAsync]

LoopNext ==
  \/ MainStarts
  \/ \E i \in DOMAIN loop_threads : LoopWorkerCreates(i)
  \/ \E r \in DOMAIN ra : EnsureChecks(r)
  \/ \E r \in DOMAIN ra : EnsureStarts(r)
  \/ \E r \in DOMAIN ra : RunAsyncSubmits(r)
  \/ GracefulShutdown

SpecLoop == LoopInit /\ [][LoopNext]_vars

\* ========================================================= fair scheduling
\* the calls of generate_output with the engine built, as in Spec
LiveInit ==
  /\ OrchStateOver(LiveCalls, 1)
  /\ ApiIdle
  /\ caller = [c \in LiveCalls |-> "generate_output"]
  /\ ChatIdle

\* generate_output is started; the worker thread returns, raises or goes on
\* for ever; the loop resumes _rag_query; the route's deadline cancels it
LiveNext ==
  \/ \E c \in DOMAIN pc, t \in TimeoutChoices : GenerateOutput(c, "hf", t)
  \/ \E c \in DOMAIN pc : QueryLockGranted(c)
  \/ \E c \in DOMAIN pc : EngineReturns(c)
  \/ \E c \in DOMAIN pc : EngineRaises(c, {})
  \/ \E c \in DOMAIN pc : WaitForCompletes(c)
  \/ \E c \in DOMAIN pc : WaitForTimesOut(c)
  \/ \E c \in DOMAIN pc : Cancel(c)

\* The event loop is fair to its own callbacks: a waiter that has been handed
\* the free lock is resumed, and a wait_for whose future is done or whose
\* timer is due is resumed (the timer of wait_for is always due in the end).
\* Nothing makes a worker thread finish, a request arrive or a deadline fire.
LiveFairness ==
  \A c \in LiveCalls :
    /\ WF_vars(QueryLockGranted(c))
    /\ WF_vars(WaitForCompletes(c) \/ WaitForTimesOut(c))

SpecLive == LiveInit /\ [][LiveNext]_vars /\ LiveFairness

\* ================================================================ claims
\* rag.query executions in progress on the engine of provider p
InProgress(p) ==
  {c \in DOMAIN thread :
     thread[c] \in {"running", "llm", "generate"} /\ llm_provider[c] = p}

\* C1: over every interleaving of _rag_query calls against one engine handle,
\* calls that start after an earlier call timed out included, at most one
\* execution of rag.query is in progress at any time.
C1_AtMostOneQueryRunning ==
  \A p \in _ALLOWED_LLM_PROVIDERS : Cardinality(InProgress(p)) <= 1

\* C2: when the selected provider needs a credential and the credential is
\* absent, no execution of rag.query begins for the request.
C2_NoQueryWithoutCredential ==
  \A c \in DOMAIN pc :
    (pc[c] # "idle" /\ CompletionRefuses(llm_provider[c])) => thread[c] = "none"

\* C3: a missing provider credential reaches the caller of generate_output as
\* a raised error: it is not converted into a returned text.
C3_MissingCredentialIsRaised ==
  \A c \in DOMAIN pc :
    (pc[c] = "ended" /\ ended_by[c] = "Exception" /\ exc_msg[c] = ConfigMsg)
      => ~IsText(result[c])

\* C4: generate_output returns a text and lets no exception escape, whatever
\* the outcome of engine initialization and of the query (the cancellation of
\* the coroutine by the route is no outcome of the request and is left out).
C4_AlwaysReturnsText ==
  \A c \in DOMAIN pc :
    (pc[c] = "ended" /\ ended_by[c] # "CancelledError") => IsText(result[c])

\* C5: the history passed to the query of a chat request never contains the
\* user turn that the same request appended.
C5_OwnTurnNotInHistory ==
  \A r \in DOMAIN rhist : \A i \in 1..Len(rhist[r]) :
    rhist[r][i] # [role |-> "user", content |-> Message(r)]

\* C6: a _rag_query call whose wait_for timed out returns the timeout sentinel
\* for its own timeout and never the engine's text, also when the abandoned
\* rag.query runs to completion afterwards; that text reaches no caller.
C6_TimeoutReturnsSentinel ==
  \A c \in DOMAIN pc :
    ended_by[c] = "TimeoutError" =>
      /\ result[c] = TimeoutText(timeout_s[c])
      /\ \A d \in DOMAIN pc : result[d] # EngineText(c)

\* C6 witness: a call timed out and got the sentinel, and the rag.query it
\* abandoned has run to completion and holds a text nobody receives
C6_Witness ==
  \E c \in DOMAIN pc :
    /\ ended_by[c] = "TimeoutError"
    /\ thread[c] = "ok"
    /\ result[c] = TimeoutText(timeout_s[c])

\* C7 as claimed: no execution of _rag_query ends by raising, the cancellation
\* of the enclosing task included.
C7_NeverRaises ==
  \A c \in DOMAIN pc : in_query[c] # "raised"

\* C7 as amended: _rag_query returns a text whenever it ends by the engine's
\* result, by the timeout or by an engine exception; it raises only when the
\* enclosing task is cancelled, and then it raises CancelledError.
C7_RaisesOnlyCancelled ==
  \A c \in DOMAIN pc :
    /\ ended_by[c] \in {"result", "TimeoutError", "Exception"}
         => (in_query[c] = "returned" /\ IsText(result[c]))
    /\ in_query[c] = "returned" => IsText(result[c])
    /\ in_query[c] = "raised"
         => (ended_by[c] = "CancelledError" /\ result[c] = Raised("CancelledError"))

\* C7 witness: one call got the generic error text for an engine exception
\* and another was cancelled inside _rag_query
C7_Witness ==
  \E c, d \in DOMAIN pc :
    /\ ended_by[c] = "Exception"
    /\ result[c].kind = "generic_error"
    /\ in_query[d] = "raised"

\* C8: for each provider, initialization completes at most once and every
\* get_rag call for the provider returns the same handle, the one the module
\* global holds.
C8_InitializedOnce ==
  \A p \in _ALLOWED_LLM_PROVIDERS :
    /\ inits[p] <= 1
    /\ \A c \in DOMAIN pc :
         (llm_provider[c] = p /\ rag[c] # None) => rag[c] = RagOf(p)

\* C8 witness: two get_rag calls for one provider have returned, both with
\* the handle of the one initialization that completed
C8_Witness ==
  \E c, d \in DOMAIN pc :
    /\ c # d
    /\ llm_provider[c] = llm_provider[d]
    /\ rag[c] # None
    /\ rag[d] = rag[c]
    /\ inits[llm_provider[c]] = 1

\* C9: when initialization raises inside get_rag, the exception reaches the
\* caller, the provider's handle stays None and the init lock is released;
\* and a get_rag call that gets the lock while the handle is None runs
\* initialization.
C9_InitFailure ==
  [][\A c \in DOMAIN pc :
       /\ (pc[c] = "init" /\ ended_by'[c] = "InitError") =>
            /\ result'[c] = Raised("InitError")
            /\ rag'[c] = None
            /\ (IF llm_provider[c] = "openrouter" THEN rag_or' ELSE rag_hf') = None
            /\ rag_init_lock' = None
       /\ (/\ pc[c] \in {"idle", "init_wait"}
           /\ pc'[c] \notin {"idle", "init_wait", "ended"}
           /\ RagOf(llm_provider'[c]) = None) => pc'[c] = "init"
    ]_vars

\* C9 witness: after a failed initialization another call for the same
\* provider is initializing it again
C9_Witness ==
  \E c, d \in DOMAIN pc :
    /\ ended_by[c] = "InitError"
    /\ llm_provider[d] = llm_provider[c]
    /\ pc[d] = "init"

\* C10: a get_rag call made when the provider's handle is initialized returns
\* that handle at once (in the step of the call) and does not wait for an
\* initialization in progress, that is, for the call holding the init lock.
C10_CachedHandleWithoutWaiting ==
  [][\A c \in DOMAIN pc :
       (/\ pc[c] = "idle"
        /\ pc'[c] # "idle"
        /\ RagOf(llm_provider'[c]) # None
        /\ rag_init_lock # None)
         => rag'[c] = RagOf(llm_provider'[c])
    ]_vars

\* C12: over every interleaving of requests, worker threads abandoned after a
\* query timeout included, at most one thread is inside _hf_model.generate.
C12_OneThreadInGenerate ==
  Cardinality({c \in DOMAIN thread : thread[c] = "generate"}) <= 1

\* C12 witness: the thread of a call that timed out is inside generate while
\* the thread of a later call is blocked at the lock
C12_Witness ==
  \E c, d \in DOMAIN pc :
    /\ ended_by[c] = "TimeoutError"
    /\ thread[c] = "generate"
    /\ pc[d] = "querying"
    /\ llm_provider[d] = "hf"
    /\ thread[d] = "llm"

\* C13 as claimed: the orchestrator imposes no mutual exclusion between two
\* requests that use the remote provider: none of them waits while the other
\* one runs its query.
C13_RemoteRequestsNotSerialized ==
  \A c, d \in DOMAIN pc :
    (/\ llm_provider[c] = "openrouter"
     /\ llm_provider[d] = "openrouter"
     /\ pc[d] = "querying") => pc[c] # "query_wait"

\* C13 as amended: the query lock serializes the requests whatever their
\* provider; two remote completion calls are in flight together only when
\* one of the two requests has ended (timeout or cancellation) and left its
\* worker thread behind.
C13_RemoteInFlightTogetherOnlyAbandoned ==
  \A c, d \in DOMAIN pc :
    (/\ c # d
     /\ llm_provider[c] = "openrouter"
     /\ llm_provider[d] = "openrouter"
     /\ thread[c] = "llm"
     /\ thread[d] = "llm")
      => \/ (pc[c] = "ended" /\ ended_by[c] \in {"TimeoutError", "CancelledError"})
         \/ (pc[d] = "ended" /\ ended_by[d] \in {"TimeoutError", "CancelledError"})

\* C13 witness: two remote completion calls are in flight, the one of a call
\* that timed out and the one of a call that runs its query
C13_Witness ==
  \E c, d \in DOMAIN pc :
    /\ llm_provider[c] = "openrouter"
    /\ llm_provider[d] = "openrouter"
    /\ thread[c] = "llm"
    /\ thread[d] = "llm"
    /\ ended_by[c] = "TimeoutError"
    /\ pc[d] = "querying"

\* C19: when rag.query raises an exception other than a timeout, _rag_query
\* returns the dimension-mismatch diagnostic exactly when the error text
\* carries "shapes", "!=" and "dim", and the generic message embedding the
\* error text otherwise; each such exception gets exactly one of the two.
C19_ErrorTextClassification ==
  \A c \in DOMAIN pc :
    ended_by[c] = "Exception" =>
      /\ result[c].kind \in {"dim_mismatch", "generic_error"}
      /\ result[c].kind = "dim_mismatch" <=> DimMsg \subseteq exc_msg[c]
      /\ result[c].kind = "dim_mismatch" => result[c] = DimMismatchText
      /\ result[c].kind = "generic_error" => result[c] = GenericErrorText(exc_msg[c])

\* C19 witness: one exception with the full signature got the diagnostic and
\* one with a part of the signature got the generic message
C19_Witness ==
  \E c, d \in DOMAIN pc :
    /\ ended_by[c] = "Exception"
    /\ exc_msg[c] = DimMsg
    /\ result[c] = DimMismatchText
    /\ ended_by[d] = "Exception"
    /\ exc_msg[d] = PartialMsg
    /\ result[d] = GenericErrorText(PartialMsg)

\* C11: no document insertion into an engine (rag.ainsert awaited by
\* insert_uploaded_files_to_rag) is in progress while a rag.query runs
\* against the same engine.
C11_NoInsertDuringQuery ==
  \A c \in DOMAIN pc :
    pc[c] = "inserting" => InProgress(llm_provider[c]) = {}

\* C14: every session id is in the session list of at most one user, and the
\* reverse lookup from the session resolves to one user.
C14_SessionHasOneOwner ==
  \A sid \in SessionIds :
    /\ Cardinality({u \in UserNames : sid \in user_collection[u].session_list}) <= 1
    /\ Cardinality(_find_username_by_session(user_collection, sid)) = 1

\* the options field stored for the username call c resolved
StoredFor(c) ==
  IF username[c] = NoUsername THEN NoOptions
  ELSE user_collection[username[c]].options

\* C15: _get_user_options never raises and returns a fully typed record for
\* every stored user record: chatHistory a bool, timeout an int in [5,600],
\* customPrompt a str, queryMode and llmProvider in their allowed sets.
C15_OptionsNeverFail ==
  \A c \in DOMAIN pc :
    (caller[c] = "_get_user_options" /\ pc[c] = "ended") =>
      /\ options[c].raised = "none"
      /\ options[c].chatHistory.ty = "bool"
      /\ options[c].timeout.ty = "int"
      /\ options[c].timeout.n >= 5
      /\ options[c].timeout.n <= 600
      /\ options[c].customPrompt.ty = "str"
      /\ options[c].queryMode.s \in _ALLOWED_QUERY_MODES
      /\ options[c].llmProvider.s \in _ALLOWED_LLM_PROVIDERS

\* C17: for every stored timeout that converts to an integer, the resolved
\* timeout is that integer clamped into [5,600].
C17_TimeoutClamped ==
  \A c \in DOMAIN pc :
    (/\ caller[c] = "_get_user_options"
     /\ pc[c] = "ended"
     /\ StoredFor(c).ty = "dict"
     /\ StoredFor(c).timeout.ty # "missing"
     /\ int(StoredFor(c).timeout).ok) =>
      LET k == int(StoredFor(c).timeout).n
      IN options[c].timeout =
           PyInt(IF k < 5 THEN 5 ELSE IF k > 600 THEN 600 ELSE k)

\* C17 witness: a stored timeout above the range resolved to 600
C17_Witness ==
  \E c \in DOMAIN pc :
    /\ pc[c] = "ended"
    /\ StoredFor(c).ty = "dict"
    /\ StoredFor(c).timeout = PyInt(601)
    /\ options[c].timeout = PyInt(600)

\* C18: a stored queryMode outside the allowed modes resolves to naive, a
\* stored llmProvider outside the allowed providers resolves to hf, valid
\* values are kept, and neither case raises; _build_queryparam keeps the
\* resolved mode.
C18_InvalidEnumsFallBack ==
  \A c \in DOMAIN pc :
    (/\ caller[c] = "_get_user_options"
     /\ pc[c] = "ended"
     /\ StoredFor(c).ty = "dict") =>
      LET qm == StoredFor(c).queryMode
          prov == StoredFor(c).llmProvider
      IN /\ options[c].raised = "none"
         /\ options[c].queryMode =
              IF qm.ty = "str" /\ qm.s \in {"local", "global", "hybrid", "naive", "mix"}
              THEN qm ELSE PyStr("naive")
         /\ options[c].llmProvider =
              IF prov.ty = "str" /\ prov.s \in {"hf", "openrouter"}
              THEN prov ELSE PyStr("hf")
         /\ _build_queryparam(options[c].customPrompt, options[c].queryMode).mode
              = options[c].queryMode.s

\* C18 witness: a stored mode that is no allowed mode resolved to naive while
\* the valid stored provider was kept
C18_Witness ==
  \E c \in DOMAIN pc :
    /\ pc[c] = "ended"
    /\ StoredFor(c).ty = "dict"
    /\ StoredFor(c).queryMode = PyStr("Naive")
    /\ StoredFor(c).llmProvider = PyStr("openrouter")
    /\ options[c].queryMode = PyStr("naive")
    /\ options[c].llmProvider = PyStr("openrouter")

\* the turns of session sid, oldest first
TurnsOf(sid) == SelectSeq(chatlogs, LAMBDA e : e.session_id = sid)

\* C16: for a session whose turns oldest-first are [t1..tn], the history is
\* the last min(n-1, 6) entries of [t1..t(n-1)] as {role, content} pairs in
\* their order, and the empty sequence when n <= 1.
C16_HistoryWindow ==
  \A r \in DOMAIN rpc :
    rpc[r] = "query" =>
      LET t == TurnsOf(req[r].session_id)
          n == Len(t)
          k == IF n <= 1 THEN 0 ELSE IF n - 1 < 6 THEN n - 1 ELSE 6
      IN /\ Len(rhist[r]) = k
         /\ \A i \in 1..k :
              rhist[r][i] = [role |-> t[n - 1 - k + i].role,
                             content |-> t[n - 1 - k + i].content]

\* C16 witness: a session of 8 turns was read: the window holds t2..t7
C16_Witness ==
  \E r \in DOMAIN rpc :
    /\ rpc[r] = "query"
    /\ Len(TurnsOf(req[r].session_id)) = 8
    /\ Len(rhist[r]) = 6
    /\ rhist[r][1].content = TurnsOf(req[r].session_id)[2].content

\* the session has no owning user, or owners without stored options, and one
\* turn, the one just appended
DefaultsSession(sid) ==
  /\ \A u \in UserNames :
       sid \in user_collection[u].session_list
         => user_collection[u].options.ty = "missing"
  /\ Len(TurnsOf(sid)) = 1

\* C20: for a session with no owning user (or a user without stored options)
\* whose only turn is the one just appended, generate_output resolves the
\* default provider hf and the default timeout 180, creates the hf engine
\* when the call is the first to need it (past the init lock with no engine
\* yet, the call is initializing it), queries the engine with mode naive and
\* no conversation history, and returns the engine's text as it is.
C20_DefaultsScenario ==
  \A c \in DOMAIN pc :
    (/\ caller[c] = "generate_output"
     /\ pc[c] # "idle"
     /\ DefaultsSession(session_id[c])) =>
      /\ llm_provider[c] = "hf"
      /\ timeout_s[c] = 180
      /\ (pc[c] \in {"init", "query_wait", "querying"} /\ rag_hf = None)
           => (pc[c] = "init" /\ rag_init_lock = c)
      /\ in_query[c] # "no" =>
           /\ rag[c] # None
           /\ rag[c] = rag_hf
           /\ inits["hf"] = 1
           /\ param[c] = [mode |-> "naive", user_prompt |-> "",
                          conversation_history |-> <<>>]
      /\ ended_by[c] = "result" => result[c] = EngineText(c)

\* C20 witness: a call for the session without owner and a call for the
\* session of the user without options both returned the engine's text
C20_Witness ==
  \E c, d \in DOMAIN pc :
    /\ session_id[c] = OrphanSession
    /\ username[c] = NoUsername
    /\ ended_by[c] = "result"
    /\ result[c] = EngineText(c)
    /\ param[c].mode = "naive"
    /\ session_id[d] = "s1"
    /\ username[d] = "alice"
    /\ ended_by[d] = "result"
    /\ result[d] = EngineText(d)
    /\ inits["hf"] = 1

\* C21: a failure to persist a usage record never affects the response: when
\* the usage store insert fails, the completion function raises nothing
\* because of it and returns the text it returns when the insert succeeds
\* (the text the backend produced, "" for a completion without content).
C21_UsageFailureIsSwallowed ==
  \A c \in DOMAIN llm :
    /\ llm[c].pc = "returned" =>
         llm_result[c].text = IF llm[c].provider = "hf" \/ llm[c].content
                              THEN Content(c) ELSE EmptyContent
    /\ llm[c].pc = "raised" => llm_result[c].text # LlmRaised(UsageMsg)

\* C21 witness: two completion functions returned their text, the local one
\* with its usage record stored, the remote one with both inserts failed
C21_Witness ==
  \E c, d \in DOMAIN llm :
    /\ llm[c].provider = "hf"
    /\ llm_result[c] = [text |-> Content(c), logged |-> {"simple"}]
    /\ llm[d].provider = "openrouter"
    /\ llm[d].pc = "returned"
    /\ llm_result[d] = [text |-> Content(d), logged |-> {}]
    /\ token_collection = {UsageRecord("hf", c, "simple")}
\* C22: setOptions preserves the options an update does not include: for
\* every stored options record and every update that omits a field, the
\* stored value of the omitted field is the same after the update as before.
C22_OmittedOptionsPreserved ==
  [][\A r \in DOMAIN so :
       (/\ so[r].pc = "new"
        /\ so'[r].pc = "done"
        /\ so'[r].status = 200
        /\ user_collection[so'[r].username].options.ty = "dict")
         => \A f \in OptionFields :
              (so'[r].options.ty = "dict" /\ so'[r].options[f] = Missing)
                => user_collection'[so'[r].username].options[f]
                     = user_collection[so'[r].username].options[f]
    ]_vars

\* C23: every chat request that stores its user turn also stores an assistant
\* turn for that request before it completes, whatever the outcome of
\* generation.
C23_AssistantTurnStored ==
  \A r \in DOMAIN rpc :
    (/\ rpc[r] = "responded"
     /\ \E i \in 1..Len(chatlogs) :
          chatlogs[i].role = "user" /\ chatlogs[i].content = req[r].message)
      => \E i \in 1..Len(chatlogs) :
           /\ chatlogs[i].role = "assistant"
           /\ chatlogs[i].session_id = req[r].session_id
           /\ chatlogs[i].user_name = req[r].user_name
           /\ chatlogs[i].content = ai_response[r]

\* C24: after any interleaving of register requests, the user store holds at
\* most one record per username, and at most one register request per
\* username returned 201.
C24_OneRecordPerUsername ==
  \A u \in UserNames :
    /\ registered[u] <= 1
    /\ Cardinality({r \in DOMAIN reg :
                      reg[r].username = u /\ reg[r].status = 201}) <= 1

\* C27: the query parameters carry a conversation history exactly when
\* chatHistory is enabled and the windowed history is non-empty (the session
\* holds a turn before its last one); when chatHistory is disabled,
\* generate_output does not read the session's turns and the parameters
\* carry no history whatever the session contains.
C27_HistoryOnlyWhenEnabled ==
  \A c \in DOMAIN pc :
    (caller[c] = "generate_output" /\ in_query[c] # "no") =>
      LET enabled == options[c].chatHistory = PyBool(TRUE)
          turns == TurnsOf(session_id[c])
      IN /\ param[c].conversation_history # <<>>
              <=> (enabled /\ Len(turns) >= 2)
         /\ enabled =>
              /\ raw_entries[c] = [read |-> TRUE, entries |-> turns]
              /\ Len(param[c].conversation_history)
                   = IF Len(turns) = 0 THEN 0 ELSE Len(turns) - 1
         /\ ~enabled =>
              /\ raw_entries[c] = NotRead
              /\ param[c].conversation_history = <<>>

\* C27 witness: with chatHistory stored as false and three turns in the
\* session, the query ran with parameters that carry no history
C27_Witness ==
  \E c \in DOMAIN pc :
    /\ username[c] = "alice"
    /\ user_collection["alice"].options.chatHistory = PyBool(FALSE)
    /\ Len(TurnsOf(session_id[c])) = 3
    /\ raw_entries[c] = NotRead
    /\ param[c].conversation_history = <<>>
    /\ ended_by[c] = "result"

\* C30: for every stored timeout value, the deadline the chat route applies
\* to the whole generation equals the timeout the orchestrator resolves for
\* the query step of the same request, so the route's deadline is never
\* shorter than the query-step timeout.
C30_DeadlineEqualsQueryTimeout ==
  \A c \in DOMAIN pc :
    (/\ caller[c] = "chat"
     /\ pc[c] = "ended"
     /\ route_timeout[c].raised = "none"
     /\ options[c].raised = "none")
      => /\ route_timeout[c].n = options[c].timeout.n
         /\ route_timeout[c].n >= timeout_s[c]

\* C25: a chat request whose engine work exceeds the user's configured
\* timeout completes with the orchestrator's timeout sentinel as its answer:
\* the route's own deadline does not fire before the query-step timeout has
\* produced the sentinel.
C25_TimeoutYieldsSentinel ==
  \A c \in DOMAIN pc :
    (/\ caller[c] = "generate_output"
     /\ pc[c] = "ended"
     /\ thread[c] \in {"running", "llm", "generate"}
     /\ age_wait[c] >= timeout_s[c])
      => /\ ended_by[c] = "TimeoutError"
         /\ result[c] = TimeoutText(timeout_s[c])

\* C26: a _rag_query call returns within timeout_s, plus a bounded grace
\* period, of being called, also when it first waits for the query lock
\* behind other queries.
C26_TimeoutBoundsWholeCall ==
  \A c \in DOMAIN pc :
    in_query[c] = "returned" => age_query[c] <= timeout_s[c] + Grace

\* C28: over any interleaving of concurrent run_async calls, at most one
\* loop thread is started while one is alive, and no coroutine is submitted
\* before the loop thread has created the loop.
C28_OnePersistentLoop ==
  /\ Cardinality(AliveLoopThreads) <= 1
  /\ \A r \in DOMAIN ra : ra[r].pc # "raised"

\* C29: the query lock is released on every exit path of _rag_query, so
\* under fair scheduling every _rag_query call that waits for the lock
\* eventually acquires it and every call eventually returns, even if an
\* engine call never finishes.
C29_WaiterAcquiresAndReturns ==
  \A c \in LiveCalls :
    /\ (pc[c] = "query_wait") ~> (pc[c] = "querying")
    /\ (in_query[c] = "active") ~> (in_query[c] = "returned")

\* C29, amended: under fair scheduling every _rag_query call that waits for
\* the lock eventually acquires it unless it is cancelled while it waits, and
\* every call eventually ends, by returning a text or by the CancelledError
\* of its cancellation, even if an engine call never finishes.
C29_WaiterAcquiresOrIsCancelled ==
  \A c \in LiveCalls :
    /\ (pc[c] = "query_wait")
         ~> (pc[c] = "querying" \/ ended_by[c] = "CancelledError")
    /\ (in_query[c] = "active")
         ~> (in_query[c] = "returned"
             \/ (in_query[c] = "raised" /\ ended_by[c] = "CancelledError"))

\* a call waits for the lock that the timeout of another call has released
\* while the engine call of that one goes on
C29_Witness ==
  \E c, d \in DOMAIN pc :
    /\ caller[c] = "generate_output"
    /\ pc[c] = "query_wait"
    /\ rag_query_lock = None
    /\ ended_by[d] = "TimeoutError"
    /\ thread[d] = "running"

\* C31: for a user with no stored options, every option that getOptions
\* reports (chatHistory, timeout, customPrompt) has the value that
\* _get_user_options resolves for that user when a chat message is generated.
C31_ReportedDefaultsAreResolved ==
  \A r \in DOMAIN so, c \in DOMAIN pc :
    (/\ so[r].pc = "done"
     /\ so[r].status = 200
     /\ caller[c] = "_get_user_options"
     /\ pc[c] = "ended"
     /\ ended_by[c] = "result"
     /\ username[c] = so[r].username
     /\ user_collection[username[c]].options = NoOptions)
      => /\ so[r].options.chatHistory = options[c].chatHistory
         /\ so[r].options.timeout = options[c].timeout
         /\ so[r].options.customPrompt = options[c].customPrompt

\* C32: after any sequence of register, chat and setOptions requests, every
\* record in the user store was created by a successful registration and
\* carries a password hash, so a login for an existing username ends in 200
\* or 401 and never in a server error.
C32_EveryUserCanLogIn ==
  /\ \A u \in DOMAIN registered :
       user_collection[u].present => registered[u] > 0
  /\ \A r \in DOMAIN reg :
       (reg[r].pc = "login_done" /\ reg[r].status \notin {400, 404})
         => reg[r].status \in {200, 401}

====
